---- MODULE Spec2Model ----
(***************************************************************************)
(* A model of the pytoui view-tree runtime: the scene graph (View), the    *)
(* per-window touch dispatch and first-responder state (BaseRuntime,       *)
(* SDLRuntime), the attribute-animation engine (animate / _tick) and the   *)
(* graphics-state stack used by the render pass (GState, View._render).    *)
(***************************************************************************)
EXTENDS Integers, Sequences, FiniteSets, TLC

\* ------------------------------------------------------------------ bounds

NumViews == 3

\* Python's None for a view reference (View._superview, _first_responder).
NoView == 0

Views == 1..NumViews

\* Pointer events arrive at the screen points (0..MaxX, 0) of the top row and
\* at one point of the row below it.
MaxX == 2

\* touch_id == -1 is the mouse pointer; ids >= 0 are fingers.
MouseId == -1

FingerId == 0

TouchIds == {MouseId, FingerId}

Points == ((0..MaxX) \X {0}) \cup {<<1, 1>>}

\* A key that is absent from the _last_pos dict.
NoPos == <<>>

\* How many animate calls a behaviour makes, how deeply they nest, how many
\* attribute writes one body makes, and how far the clock runs.
MaxCalls == 2

MaxDepth == 2

MaxWrites == 2

MaxTime == 3

\* How many GState scopes application code holds open around the window
\* loop, and how far it translates the CTM there.
MaxScopes == 1

MaxShift == 1

\* How many "with GState()" and "with ImageContext()" blocks nest.
MaxBlocks == 2

\* How many delay() calls, and how many cancel_delays() calls, application
\* code makes.
MaxDelays == 2

\* How often the root view is presented.
MaxPresents == 2

\* How many SDL windows are opened, and how many events SDL delivers.
MaxWindows == 2

MaxEvents == 3

CallIds == 1..MaxCalls

\* An animate call that has not returned yet has scheduled nothing.
NoBatch ==
  [returned |-> FALSE, duration |-> 0, n |-> 0, completion |-> FALSE,
   written |-> <<>>]

VARIABLES
  superview,           \* View._superview
  subviews,            \* View._subviews
  raised,              \* the exception the last call ended with, or "none"
  lastOp,              \* the last call made, with its arguments
  frame,               \* View._frame
  bounds,              \* View._bounds
  hidden,              \* View._hidden
  touch_enabled,       \* View._touch_enabled
  multitouch_enabled,  \* View._multitouch_enabled
  runtime,             \* which runtime class owns the window: "base" or "sdl"
  tracked,             \* runtime._tracked: touch id -> view (NoView: no key)
  last_pos,            \* runtime._last_pos: touch id -> point (NoPos: no key)
  delivered,           \* the touch hooks the last event invoked, in order
  root_to_runtime,     \* _root_to_runtime: the roots that map to a runtime
  first_responder,     \* runtime._first_responder of the runtime of each root
  hookLog,             \* the focus hooks the last call invoked, in order
  result,              \* what the last call returned
  alpha,               \* View._alpha
  background_color,    \* View._background_color
  transform,           \* View._transform
  flex,                \* View._flex, as the set of its letters
  needs_display,       \* View._needs_display
  clock,               \* what time.time() returns
  recording,           \* _AnimatingContext.recording
  records,             \* _AnimatingContext.records
  active,              \* _AnimatingContext.active
  callStack,           \* the animate calls whose body is running, outermost first
  remaining,           \* the remaining[0] cell of each animate call
  fired,               \* how often each call's completion callback has run
  batch,               \* what each animate call scheduled when it returned
  nextCall,            \* the number of the next animate call
  tickLog,             \* what the last _tick did with each task of the list
  writes,              \* how many assignments animate bodies have made
  ctx,                 \* the thread's _DrawingContext, with the CTM its backend holds
  border_width,        \* View._border_width
  content_mode,        \* View._content_mode
  content_draw,        \* View._content_draw_w and View._content_draw_h
  rendering,           \* whether the window loop is inside render_fn
  pending,             \* the views the running render pass has still to visit
  scopes,              \* the GState scopes application code holds open
  scopeLog,            \* the GState scopes the last step closed
  passEntry,           \* the graphics state the running render pass started in
  painted,             \* the views whose draw() the last render pass called, in order
  rust_ctm,            \* the matrix each backend was last handed by set_ctm
  blocks,              \* the "with GState()" and "with ImageContext()" blocks open
  pending_delays,      \* _AnimatingContext.pending_delays
  delayCount,          \* how many delay() calls have been made
  delayLog,            \* the delay, cancel_delays and callback calls, in order
  presented,           \* View._presented of the root view
  on_screen,           \* View._on_screen of the root view
  close_event,         \* whether View._close_event of the root view is set
  pc,                  \* where each thread is in present, close or wait_modal
  inLoop,              \* whether the runtime's run() is still in its loop
  presents,            \* how many present() calls have been made
  hooks,               \* will_close calls since the last present()
  sets,                \* _close_event.set() calls since the last present()
  overlapped,          \* whether a close() call ever ran while another close()
                       \* or a present() did
  window_map,          \* _window_map: window id -> registered SDLRuntime
  event_queue,         \* SDLRuntime._event_queue of each runtime
  routing,             \* the message the pump thread is routing, and to whom
  loopPc,              \* where each runtime's thread is in SDLRuntime.run
  running,             \* SDLRuntime.running
  handled,             \* the messages each runtime dispatched, with the thread
  polled,              \* how many events SDL_PollEvent has returned
  color_arg,           \* the argument parse_color is called with
  setter_calls,        \* the methods the last geometry setters called, in order
  switch,              \* the fields of one Switch
  pressed,             \* whether that Switch was sent touch_began and not yet touch_ended
  pump_thread,         \* _pump_thread: None, or where the thread is in _pump_loop
  acquired             \* per runtime: the views whose last focus hook was the acquire hook

treeVars == <<superview, subviews>>

geomVars == <<frame, bounds, setter_calls>>

flagVars == <<hidden, touch_enabled, multitouch_enabled>>

touchVars == <<runtime, tracked, last_pos, delivered>>

focusVars == <<root_to_runtime, first_responder, hookLog, result>>

attrVars == <<alpha, background_color, transform, flex, needs_display>>

animVars == <<clock, recording, records, active, callStack, remaining, fired,
              batch, nextCall, tickLog, writes>>

drawVars == <<ctx, border_width, content_mode, content_draw, rendering,
              pending, scopes, scopeLog, passEntry, painted>>

backendVars == <<rust_ctm, blocks>>

delayVars == <<pending_delays, delayCount, delayLog>>

modalVars == <<presented, on_screen, close_event, pc, inLoop, presents, hooks,
               sets, overlapped>>

pumpVars == <<window_map, event_queue, routing, loopPc, running, handled,
              polled>>

colorVars == <<color_arg>>

switchVars == <<switch, pressed>>

threadVars == <<pump_thread>>

hookVars == <<acquired>>

\* What the tree operations leave alone.
otherThanTree == <<geomVars, flagVars, touchVars, focusVars, attrVars, animVars, backendVars, delayVars, modalVars, pumpVars, colorVars, switchVars, threadVars, hookVars,
                   drawVars>>

\* What a touch event leaves alone.
otherThanTouch == <<treeVars, geomVars, flagVars, raised, focusVars, attrVars,
                    animVars, backendVars, delayVars, modalVars, pumpVars, colorVars, switchVars, threadVars, hookVars, drawVars>>

vars == <<superview, subviews, raised, lastOp, frame, bounds, setter_calls, hidden,
          touch_enabled, multitouch_enabled, runtime, tracked, last_pos,
          delivered, root_to_runtime, first_responder, hookLog, result,
          attrVars, animVars, backendVars, delayVars, modalVars, pumpVars, colorVars, switchVars, threadVars, hookVars, drawVars>>

\* ------------------------------------------------------------ list helpers

\* list.index: position of the first occurrence of x in s (0 when absent).
IndexOf(s, x) ==
  IF \E i \in 1..Len(s) : s[i] = x
  THEN CHOOSE i \in 1..Len(s) : s[i] = x /\ \A j \in 1..(i - 1) : s[j] # x
  ELSE 0

Contains(s, x) == \E i \in 1..Len(s) : s[i] = x

\* list.remove(x) on a list that holds x: drops the first occurrence only.
ListRemove(s, x) ==
  LET k == IndexOf(s, x)
  IN  [i \in 1..(Len(s) - 1) |-> IF i < k THEN s[i] ELSE s[i + 1]]

Count(s, x) == Cardinality({i \in 1..Len(s) : s[i] = x})

\* ------------------------------------------------- floating-point numbers

\* Python floats are binary floating-point numbers: every arithmetic result is
\* rounded to the nearest number with SigBits significant bits, ties to even
\* (53 bits for a Python float; the model keeps 3, which makes the rounding
\* reachable with small numbers).  The model's numbers are integers, so its
\* format has the integers as its finest grid.
SigBits == 3

RECURSIVE Pow2(_)
Pow2(n) == IF n = 0 THEN 1 ELSE 2 * Pow2(n - 1)

Abs(n) == IF n < 0 THEN 0 - n ELSE n

RECURSIVE UlpFrom(_, _, _)
\* The spacing of the representable numbers around m / den (m, den > 0).
UlpFrom(u, m, den) ==
  IF m < Pow2(SigBits) * u * den THEN u ELSE UlpFrom(2 * u, m, den)

\* m / den (m >= 0, den > 0) rounded to the nearest integer, ties to even.
RoundHalfEven(m, den) ==
  LET q == m \div den
      r == m % den
  IN  IF 2 * r < den THEN q
      ELSE IF 2 * r > den THEN q + 1
      ELSE IF q % 2 = 0 THEN q ELSE q + 1

\* The float nearest to the rational num / den (den > 0).
FRound(num, den) ==
  LET m == Abs(num)
      u == UlpFrom(1, m, den)
      r == u * RoundHalfEven(m, den * u)
  IN  IF num < 0 THEN 0 - r ELSE r

\* a + b, a - b, a / k and a * (n / d) on floats.
FAdd(a, b) == FRound(a + b, 1)

FSub(a, b) == FRound(a - b, 1)

FDiv(a, k) == IF k < 0 THEN FRound(0 - a, 0 - k) ELSE FRound(a, k)

FMulFrac(a, n, d) == FRound(a * n, d)

\* ------------------------------------------------------------------ geometry

\* Rect(x, y, w, h)
Rect(x, y, w, h) == [x |-> x, y |-> y, w |-> w, h |-> h]

\* View.__init__ gives every view the frame and bounds Rect(0, 0, 100, 100).
DefaultSize == 100

\* ---------------------------------------------------------------- the tree

\* A remove_subview that clears the back-pointer before it looks for the view
\* in the list.
RemoveSubviewClearsFirst(sub, sup, p, v) ==
  IF Contains(sub[p], v)
  THEN [ok |-> TRUE,
        sub |-> [sub EXCEPT ![p] = ListRemove(sub[p], v)],
        sup |-> [sup EXCEPT ![v] = NoView]]
  ELSE [ok |-> FALSE, sub |-> sub, sup |-> [sup EXCEPT ![v] = NoView]]

\* View.remove_subview as a function of the tree: list.remove raises
\* ValueError when view is not in self._subviews, before anything is written.
RemoveSubviewResult(sub, sup, p, v) ==
  IF Contains(sub[p], v)
  THEN [ok |-> TRUE,
        sub |-> [sub EXCEPT ![p] = ListRemove(sub[p], v)],
        sup |-> [sup EXCEPT ![v] = NoView]]
  ELSE [ok |-> FALSE, sub |-> sub, sup |-> sup]

\* A reparenting add_subview that forgets to detach the view from its old
\* parent.
AddSubviewNoDetach(sub, sup, p, v) ==
  IF sup[v] = p
  THEN [ok |-> TRUE, sub |-> sub, sup |-> sup]
  ELSE [ok |-> TRUE,
        sub |-> [sub EXCEPT ![p] = Append(sub[p], v)],
        sup |-> [sup EXCEPT ![v] = p]]

\* View.add_subview as a function of the tree.
AddSubviewResult(sub, sup, p, v) ==
  IF sup[v] = p
  THEN [ok |-> TRUE, sub |-> sub, sup |-> sup]
  ELSE LET d == IF sup[v] # NoView
                THEN RemoveSubviewResult(sub, sup, sup[v], v)
                ELSE [ok |-> TRUE, sub |-> sub, sup |-> sup]
       IN  IF ~d.ok
           THEN [ok |-> FALSE, sub |-> sub, sup |-> sup]
           ELSE [ok |-> TRUE,
                 sub |-> [d.sub EXCEPT ![p] = Append(d.sub[p], v)],
                 sup |-> [d.sup EXCEPT ![v] = p]]

add_subview(p, v) ==
  LET r == AddSubviewResult(subviews, superview, p, v)
  IN  /\ subviews' = r.sub
      /\ superview' = r.sup
      /\ raised' = IF r.ok THEN "none" ELSE "ValueError"
      /\ lastOp' = <<"add_subview", p, v>>
      /\ UNCHANGED otherThanTree

remove_subview(p, v) ==
  LET r == RemoveSubviewResult(subviews, superview, p, v)
  IN  /\ subviews' = r.sub
      /\ superview' = r.sup
      /\ raised' = IF r.ok THEN "none" ELSE "ValueError"
      /\ lastOp' = <<"remove_subview", p, v>>
      /\ UNCHANGED otherThanTree

\* View.bring_to_front: no superview -> return; else remove and append.
BringToFrontResult(sub, sup, v) ==
  LET p == sup[v]
  IN  IF p = NoView THEN [ok |-> TRUE, sub |-> sub]
      ELSE IF ~Contains(sub[p], v) THEN [ok |-> FALSE, sub |-> sub]
      ELSE [ok |-> TRUE, sub |-> [sub EXCEPT ![p] = Append(ListRemove(sub[p], v), v)]]

\* View.send_to_back: no superview -> return; else remove and insert(0).
SendToBackResult(sub, sup, v) ==
  LET p == sup[v]
  IN  IF p = NoView THEN [ok |-> TRUE, sub |-> sub]
      ELSE IF ~Contains(sub[p], v) THEN [ok |-> FALSE, sub |-> sub]
      ELSE [ok |-> TRUE, sub |-> [sub EXCEPT ![p] = <<v>> \o ListRemove(sub[p], v)]]

bring_to_front(v) ==
  LET r == BringToFrontResult(subviews, superview, v)
  IN  /\ subviews' = r.sub
      /\ raised' = IF r.ok THEN "none" ELSE "ValueError"
      /\ lastOp' = <<"bring_to_front", v, v>>
      /\ UNCHANGED <<superview, otherThanTree>>

send_to_back(v) ==
  LET r == SendToBackResult(subviews, superview, v)
  IN  /\ subviews' = r.sub
      /\ raised' = IF r.ok THEN "none" ELSE "ValueError"
      /\ lastOp' = <<"send_to_back", v, v>>
      /\ UNCHANGED <<superview, otherThanTree>>

\* View.__init__: every view is constructed detached and without children.
InitTree ==
  /\ superview = [v \in Views |-> NoView]
  /\ subviews = [v \in Views |-> <<>>]
  /\ raised = "none"
  /\ lastOp = <<"init", NoView, NoView>>

\* View.__init__: the geometry and flags of a freshly constructed view.
InitViewDefaults ==
  /\ frame = [v \in Views |-> Rect(0, 0, DefaultSize, DefaultSize)]
  /\ bounds = [v \in Views |-> Rect(0, 0, DefaultSize, DefaultSize)]
  /\ hidden = [v \in Views |-> FALSE]
  /\ touch_enabled = [v \in Views |-> TRUE]
  /\ multitouch_enabled = [v \in Views |-> FALSE]

\* No window: the touch state of a runtime that was never constructed.
InitNoRuntime ==
  /\ runtime = "none"
  /\ tracked = [i \in TouchIds |-> NoView]
  /\ last_pos = [i \in TouchIds |-> NoPos]
  /\ delivered = <<>>

\* No runtime was constructed: _root_to_runtime is empty.
InitNoFocus ==
  /\ root_to_runtime = {}
  /\ first_responder = [v \in Views |-> NoView]
  /\ hookLog = <<>>
  /\ result = "None"

\* View.__init__: the animatable attributes of a freshly constructed view.
InitAttrDefaults ==
  /\ alpha = [v \in Views |-> 1]
  /\ background_color = [v \in Views |-> <<0, 0, 0, 0>>]
  /\ transform = [v \in Views |-> "None"]
  /\ flex = [v \in Views |-> {}]
  /\ needs_display = [v \in Views |-> TRUE]

\* Transform.__init__
Transform(a, b, c, d, tx, ty) ==
  [a |-> a, b |-> b, c |-> c, d |-> d, tx |-> tx, ty |-> ty]

\* _IDENTITY_TRANSFORM
IDENTITY_TRANSFORM == Transform(1, 0, 0, 1, 0, 0)

\* _get_draw_ctx: the drawing context of a thread that never drew.  The
\* field backend_ctm is the CTM the backend was last handed.
NewDrawCtx ==
  [color |-> <<0, 0, 0, 1>>, blend_mode |-> "BLEND_NORMAL", backend |-> "None",
   origin |-> <<0, 0>>, shadow |-> "None", ctm |-> IDENTITY_TRANSFORM,
   alpha |-> 1, stack |-> <<>>, backend_ctm |-> IDENTITY_TRANSFORM]

\* The FrameBuffer objects ImageContext.__enter__ creates, by how many image
\* contexts are open once it is entered.
ImageBuffers == <<"image1", "image2", "image3", "image4">>

\* The backends a thread can draw into: the window's framebuffer and the
\* FrameBuffer of each open ImageContext.
Backends == {"fb"} \cup {ImageBuffers[n] : n \in 1..Len(ImageBuffers)}

\* The threads of the program: the one that calls present() and runs the
\* window loop, and two others (in_background, timers).
Threads == {"loop", "user1", "user2"}

\* View.__init__: not presented, not on screen, the close event not set.
InitNoModal ==
  /\ presented = FALSE
  /\ on_screen = FALSE
  /\ close_event = FALSE
  /\ pc = [t \in Threads |-> "idle"]
  /\ inLoop = FALSE
  /\ presents = 0
  /\ hooks = 0
  /\ sets = 0
  /\ overlapped = FALSE

\* The SDL windows by window id; SDL never hands out an id twice, so a window
\* id stands for the one SDLRuntime that owns it.
Windows == 1..MaxWindows

\* No message in flight.
NoRouting == [msg |-> [kind |-> "none", wid |-> 0], targets |-> <<>>]

\* No SDL window was opened yet: _window_map is empty and no pump runs.
InitNoPump ==
  /\ window_map = [w \in Windows |-> FALSE]
  /\ event_queue = [w \in Windows |-> <<>>]
  /\ routing = NoRouting
  /\ loopPc = [w \in Windows |-> "new"]
  /\ running = [w \in Windows |-> FALSE]
  /\ handled = [w \in Windows |-> <<>>]
  /\ polled = 0

\* Switch.__init__, and no touch of the Switch is tracked by a runtime.  The
\* knob's progress and stretch are counted in units of the tolerance the
\* update compares them with; update_interval is 0 or 1 for 1.0 / 60.0.
InitNoSwitch ==
  /\ switch = [enabled |-> TRUE, value |-> FALSE, anim_progress |-> 0,
               target_progress |-> 0, tracked |-> FALSE,
               did_change_during_move |-> FALSE, elapsed |-> 0,
               current_stretch |-> 0, animations_disabled |-> FALSE,
               update_interval |-> 0]
  /\ pressed = FALSE

\* _pump_thread = None
InitNoThread == pump_thread = "None"

\* No view has been told that it holds focus.
InitNoHooks == acquired = [r \in Views |-> {}]

\* No geometry setter was called yet.
InitNoCalls == setter_calls = <<>>

\* parse_color was not called yet.
InitNoColor == color_arg = [type |-> "NoneType", value |-> <<>>]

\* No backend was handed a matrix yet, and no "with" block is open.
InitNoBackend ==
  /\ rust_ctm = [b \in Backends |-> IDENTITY_TRANSFORM]
  /\ blocks = <<>>

\* View.__init__ of a plain View, and no window loop running.
InitNoDraw ==
  /\ ctx = NewDrawCtx
  /\ border_width = [v \in Views |-> 0]
  /\ content_mode = [v \in Views |-> "CONTENT_SCALE_TO_FILL"]
  /\ content_draw = [v \in Views |-> <<0, 0>>]
  /\ rendering = FALSE
  /\ pending = <<>>
  /\ scopes = <<>>
  /\ scopeLog = <<>>
  /\ passEntry = <<>>
  /\ painted = <<>>

\* _get_anim_ctx: the animation context of a thread that never animated.
InitNoAnim ==
  /\ clock = 0
  /\ recording = FALSE
  /\ records = <<>>
  /\ active = <<>>
  /\ callStack = <<>>
  /\ remaining = [c \in CallIds |-> 0]
  /\ fired = [c \in CallIds |-> 0]
  /\ batch = [c \in CallIds |-> NoBatch]
  /\ nextCall = 1
  /\ tickLog = <<>>
  /\ writes = 0
  /\ pending_delays = <<>>
  /\ delayCount = 0
  /\ delayLog = <<>>

\* Freshly constructed views: none attached, no window, nothing animating.
InitFresh ==
  /\ InitTree
  /\ InitViewDefaults
  /\ InitNoRuntime
  /\ InitNoFocus
  /\ InitAttrDefaults
  /\ InitNoAnim
  /\ InitNoBackend
  /\ InitNoModal
  /\ InitNoPump
  /\ InitNoColor
  /\ InitNoCalls
  /\ InitNoSwitch
  /\ InitNoThread
  /\ InitNoHooks
  /\ InitNoDraw

AddSubviewStep == \E p \in Views, v \in Views : add_subview(p, v)

RemoveSubviewStep == \E p \in Views, v \in Views : remove_subview(p, v)

BringToFrontStep == \E v \in Views : bring_to_front(v)

SendToBackStep == \E v \in Views : send_to_back(v)

NextTree ==
  \/ AddSubviewStep
  \/ RemoveSubviewStep
  \/ BringToFrontStep
  \/ SendToBackStep

SpecTree ==
  /\ InitFresh
  /\ [][NextTree]_vars

\* C1: after any sequence of add_subview / remove_subview / bring_to_front /
\* send_to_back calls every view is in the child list of at most one view,
\* at most once, and v is in p's child list exactly when v's superview is p.
C1_SingleParentNoDuplicates ==
  \A v \in Views :
    /\ \A p \in Views : Count(subviews[p], v) <= 1
    /\ \A p \in Views : Contains(subviews[p], v) <=> superview[v] = p
    /\ Cardinality({p \in Views : Contains(subviews[p], v)}) <= 1

\* C1 witness: a view that was a child of one view has just been moved under
\* another one that already had a child.
C1_Witness ==
  \E p \in Views, v \in Views :
    /\ lastOp = <<"add_subview", p, v>>
    /\ p # v
    /\ Len(subviews[p]) = 2
    /\ subviews[p][2] = v
    /\ \E q \in Views \ {p, v} : subviews[p][1] = q /\ subviews[q] = <<>>

\* ------------------------------------------------------------ hit-testing

RECURSIVE ScreenOriginFrom(_, _, _)
\* The loop of _screen_origin: each ancestor contributes frame.xy - bounds.xy.
ScreenOriginFrom(sv, x, y) ==
  IF sv = NoView THEN <<x, y>>
  ELSE ScreenOriginFrom(superview[sv],
                        x + (frame[sv].x - bounds[sv].x),
                        y + (frame[sv].y - bounds[sv].y))

\* _screen_origin(view)
ScreenOrigin(v) == ScreenOriginFrom(superview[v], frame[v].x, frame[v].y)

\* convert_point(point, to_view=view): screen coordinates to view-local ones.
ConvertPoint(pt, v) ==
  <<pt[1] - ScreenOrigin(v)[1], pt[2] - ScreenOrigin(v)[2]>>

\* The containment test of find_view_at, with both edges inclusive (an
\* off-by-one on the far edge).
InsideInclusive(v, x, y) ==
  LET o == ScreenOrigin(v)
  IN  /\ o[1] <= x /\ x <= o[1] + frame[v].w
      /\ o[2] <= y /\ y <= o[2] + frame[v].h

\* The containment test of find_view_at: ox <= x < ox + fw and oy <= y < oy + fh.
Inside(v, x, y) ==
  LET o == ScreenOrigin(v)
  IN  /\ o[1] <= x /\ x < o[1] + frame[v].w
      /\ o[2] <= y /\ y < o[2] + frame[v].h

RECURSIVE FindViewAt(_, _, _)
RECURSIVE FindInChildren(_, _, _, _)
\* A hit-test that looks into hidden views too.
FindViewAtIgnoringHidden(v, x, y) ==
  IF ~Inside(v, x, y) THEN NoView
  ELSE LET target == FindInChildren(v, Len(subviews[v]), x, y)
       IN  IF target # NoView THEN target
           ELSE IF touch_enabled[v] THEN v ELSE NoView

\* The loop "for child in reversed(view.subviews)" of find_view_at, from
\* position k of v's child list downwards.
FindInChildren(v, k, x, y) ==
  IF k = 0 THEN NoView
  ELSE LET target == FindViewAt(subviews[v][k], x, y)
       IN  IF target # NoView /\ touch_enabled[target] THEN target
           ELSE FindInChildren(v, k - 1, x, y)

\* find_view_at(view, screen_x, screen_y)
FindViewAt(v, x, y) ==
  IF hidden[v] THEN NoView
  ELSE IF ~Inside(v, x, y) THEN NoView
  ELSE LET target == FindInChildren(v, Len(subviews[v]), x, y)
       IN  IF target # NoView THEN target
           ELSE IF touch_enabled[v] THEN v ELSE NoView

\* ---------------------------------------------------------- touch dispatch

\* The view that is the root of the window (runtime.root).
Root == 1

\* _create_touch: what a touch hook receives.
CreateTouch(hook, v, pt, phase, id, prev) ==
  [hook |-> hook, view |-> v, phase |-> phase, touch_id |-> id,
   location |-> ConvertPoint(pt, v), prev_location |-> ConvertPoint(prev, v)]

\* any(v is target for v in self._tracked.values())
TrackedByAny(target) == \E i \in TouchIds : tracked[i] = target

\* The guard of BaseRuntime._touch_down that refuses a second touch on a view
\* without multitouch; SDLRuntime._touch_down has no such guard.
DownRefused(target) ==
  /\ runtime = "base"
  /\ ~multitouch_enabled[target]
  /\ TrackedByAny(target)

\* BaseRuntime._touch_down / SDLRuntime._touch_down
touch_down(x, y, id) ==
  LET target == FindViewAt(Root, x, y)
  IN  /\ last_pos' = [last_pos EXCEPT ![id] = <<x, y>>]
      /\ IF target = NoView \/ DownRefused(target)
         THEN /\ tracked' = tracked
              /\ delivered' = <<>>
         ELSE /\ tracked' = [tracked EXCEPT ![id] = target]
              /\ delivered' =
                   <<CreateTouch("touch_began", target, <<x, y>>, "began", id, <<x, y>>)>>
      /\ lastOp' = <<"touch_down", id, NoPos>>
      /\ UNCHANGED <<runtime, otherThanTouch>>

\* BaseRuntime._touch_move / SDLRuntime._touch_move
touch_move(x, y, id) ==
  LET prev == IF last_pos[id] = NoPos THEN <<x, y>> ELSE last_pos[id]
      target == tracked[id]
  IN  /\ last_pos' = [last_pos EXCEPT ![id] = <<x, y>>]
      /\ delivered' =
           IF target = NoView THEN <<>>
           ELSE <<CreateTouch("touch_moved", target, <<x, y>>,
                              IF <<x, y>> # prev THEN "moved" ELSE "stationary",
                              id, prev)>>
      /\ lastOp' = <<"touch_move", id, NoPos>>
      /\ UNCHANGED <<runtime, tracked, otherThanTouch>>

\* A release that never looks at where it happened.
UpPhaseAlwaysEnded(target, x, y) == "ended"

\* The phase a release reports: "ended" if the view under the release point
\* is the tracked one.
UpPhase(target, x, y) ==
  IF FindViewAt(Root, x, y) = target THEN "ended" ELSE "cancelled"

\* BaseRuntime._touch_up / SDLRuntime._touch_up
touch_up(x, y, id) ==
  LET prev == IF last_pos[id] = NoPos THEN <<x, y>> ELSE last_pos[id]
      target == tracked[id]
  IN  /\ last_pos' = [last_pos EXCEPT ![id] = NoPos]
      /\ tracked' = [tracked EXCEPT ![id] = NoView]
      /\ delivered' =
           IF target = NoView THEN <<>>
           ELSE <<CreateTouch("touch_ended", target, <<x, y>>,
                              UpPhase(target, x, y), id, prev)>>
      /\ lastOp' = <<"touch_up", id, <<x, y>>>>
      /\ UNCHANGED <<runtime, otherThanTouch>>

\* A cancel that reports the window's origin.
CancelPointOrigin(id) == <<0, 0>>

\* self._last_pos.pop(touch_id, (0.0, 0.0))
CancelPoint(id) == IF last_pos[id] = NoPos THEN <<0, 0>> ELSE last_pos[id]

\* BaseRuntime._touch_cancel / SDLRuntime._touch_cancel
touch_cancel(id) ==
  LET pt == CancelPoint(id)
      target == tracked[id]
  IN  /\ last_pos' = [last_pos EXCEPT ![id] = NoPos]
      /\ tracked' = [tracked EXCEPT ![id] = NoView]
      /\ delivered' =
           IF target = NoView THEN <<>>
           ELSE <<CreateTouch("touch_ended", target, pt, "cancelled", id, pt)>>
      /\ lastOp' = <<"touch_cancel", id, NoPos>>
      /\ UNCHANGED <<runtime, otherThanTouch>>

\* View.hidden (setter), called by application code between two events.
set_hidden(v, b) ==
  /\ hidden' = [hidden EXCEPT ![v] = b]
  /\ needs_display' = [needs_display EXCEPT ![v] = TRUE]
  /\ delivered' = <<>>
  /\ lastOp' = <<"set_hidden", v, NoPos>>
  /\ UNCHANGED <<treeVars, geomVars, touch_enabled, multitouch_enabled, raised,
                 runtime, tracked, last_pos, focusVars, alpha,
                 background_color, transform, flex, animVars, backendVars, delayVars, modalVars, pumpVars, colorVars, switchVars, threadVars, hookVars, drawVars>>

\* The window trees the dispatch is exercised on, as built by add_subview and
\* the frame / bounds setters before the window opens.  The root fills the
\* screen; views 2 and 3 are overlapping siblings, or 3 is nested in 2, whose
\* bounds origin is scrolled by one.
Layouts == {"siblings", "scrolled"}

LayoutSubviews(l) ==
  [v \in Views |->
     IF v = 1 THEN (IF l = "siblings" THEN <<2, 3>> ELSE <<2>>)
     ELSE IF v = 2 /\ l # "siblings" THEN <<3>>
     ELSE <<>>]

LayoutSuperview(l) ==
  [v \in Views |->
     IF v = 2 THEN 1
     ELSE IF v = 3 THEN (IF l = "siblings" THEN 1 ELSE 2)
     ELSE NoView]

LayoutFrame(l) ==
  [v \in Views |->
     IF v = 1 THEN Rect(0, 0, MaxX + 1, 2)
     ELSE IF v = 2 THEN (IF l = "siblings" THEN Rect(0, 0, 2, 1) ELSE Rect(1, 0, 2, 1))
     ELSE IF v = 3 THEN (IF l = "siblings" THEN Rect(1, 0, 2, 1) ELSE Rect(1, 0, 1, 1))
     ELSE Rect(0, 0, DefaultSize, DefaultSize)]

LayoutBounds(l) ==
  [v \in Views |->
     IF v = 2 /\ l = "scrolled" THEN Rect(1, 0, 2, 1)
     ELSE Rect(0, 0, LayoutFrame(l)[v].w, LayoutFrame(l)[v].h)]

InitTouch ==
  /\ \E l \in Layouts :
       /\ subviews = LayoutSubviews(l)
       /\ superview = LayoutSuperview(l)
       /\ frame = LayoutFrame(l)
       /\ bounds = LayoutBounds(l)
  /\ hidden = [v \in Views |-> FALSE]
  /\ touch_enabled \in {f \in [Views -> BOOLEAN] : \A v \in Views \ {3} : f[v]}
  /\ multitouch_enabled \in {f \in [Views -> BOOLEAN] : \A v \in Views \ {2} : ~f[v]}
  /\ runtime \in {"base", "sdl"}
  /\ tracked = [i \in TouchIds |-> NoView]
  /\ last_pos = [i \in TouchIds |-> NoPos]
  /\ delivered = <<>>
  /\ raised = "none"
  /\ lastOp = <<"init", NoView, NoPos>>
  /\ InitNoFocus
  /\ InitAttrDefaults
  /\ InitNoAnim
  /\ InitNoBackend
  /\ InitNoModal
  /\ InitNoPump
  /\ InitNoColor
  /\ InitNoCalls
  /\ InitNoSwitch
  /\ InitNoThread
  /\ InitNoHooks
  /\ InitNoDraw

TouchDownStep == \E p \in Points, i \in TouchIds : touch_down(p[1], p[2], i)

TouchMoveStep == \E p \in Points, i \in TouchIds : touch_move(p[1], p[2], i)

TouchUpStep == \E p \in Points, i \in TouchIds : touch_up(p[1], p[2], i)

TouchCancelStep == \E i \in TouchIds : touch_cancel(i)

SetHiddenStep == \E b \in BOOLEAN : set_hidden(2, b)

NextTouch ==
  \/ TouchDownStep
  \/ TouchMoveStep
  \/ TouchUpStep
  \/ TouchCancelStep
  \/ SetHiddenStep

SpecTouch == InitTouch /\ [][NextTouch]_vars

\* C2: Up(id, x, y) for a tracked id delivers exactly one touch_ended to the
\* tracked view, with phase "ended" if the hit-test at the release point
\* returns that view and "cancelled" otherwise (so also whenever the point is
\* outside the view), and removes id from _tracked and _last_pos; and right
\* after a Down that delivered touch_began to a view, that view is the one
\* under the Down point, so an Up at the same point reports "ended".
C2_UpEndsOrCancels ==
  [][/\ \A i \in TouchIds, p \in Points :
          (lastOp' = <<"touch_up", i, p>> /\ tracked[i] # NoView) =>
            /\ Len(delivered') = 1
            /\ delivered'[1].hook = "touch_ended"
            /\ delivered'[1].view = tracked[i]
            /\ delivered'[1].touch_id = i
            /\ delivered'[1].phase =
                 (IF FindViewAt(Root, p[1], p[2]) = tracked[i]
                  THEN "ended" ELSE "cancelled")
            /\ (~Inside(tracked[i], p[1], p[2]) => delivered'[1].phase = "cancelled")
            /\ tracked'[i] = NoView
            /\ last_pos'[i] = NoPos
     /\ \A i \in TouchIds :
          (lastOp' = <<"touch_down", i, NoPos>> /\ delivered' # <<>>) =>
            /\ Len(delivered') = 1
            /\ delivered'[1].hook = "touch_began"
            /\ tracked'[i] = delivered'[1].view
            /\ FindViewAt(Root, last_pos'[i][1], last_pos'[i][2]) = tracked'[i]
    ]_vars

\* C2 witness: a touch that began on a view was released at a point outside
\* that view's frame and the view got touch_ended("cancelled").
C2_Witness ==
  /\ lastOp[1] = "touch_up"
  /\ Len(delivered) = 1
  /\ delivered[1].phase = "cancelled"
  /\ ~Inside(delivered[1].view, lastOp[3][1], lastOp[3][2])
  /\ tracked[lastOp[2]] = NoView

\* C3: in every reachable state a view whose multitouch flag is off is the
\* tracked target of at most one touch id.
C3_NoSecondTouchWithoutMultitouch ==
  \A v \in Views :
    ~multitouch_enabled[v] => Cardinality({i \in TouchIds : tracked[i] = v}) <= 1

\* The same statement for windows run by BaseRuntime only.
C3_HoldsForBaseRuntime ==
  runtime = "base" => C3_NoSecondTouchWithoutMultitouch

\* ---------------------------------------------------------- first responder

RECURSIVE RootOf(_)
\* The loop of _get_runtime_for_view: follow _superview up to the root.
RootOf(v) == IF superview[v] = NoView THEN v ELSE RootOf(superview[v])

RECURSIVE IsAncestorOrSelf(_, _)
\* Whether a is v or one of the views above v.
IsAncestorOrSelf(a, v) ==
  IF a = v THEN TRUE
  ELSE IF superview[v] = NoView THEN FALSE
  ELSE IsAncestorOrSelf(a, superview[v])

\* Views that may be presented as the root of a window.
WindowRoots == {1, 2}

\* BaseRuntime.__init__: a new runtime, with no first responder, is registered
\* under its root view.
runtime_init(r) ==
  /\ root_to_runtime' = root_to_runtime \cup {r}
  /\ first_responder' = [first_responder EXCEPT ![r] = NoView]
  /\ hookLog' = <<>>
  /\ result' = "None"
  /\ acquired' = [acquired EXCEPT ![r] = {}]
  /\ lastOp' = <<"runtime_init", r, r>>
  /\ UNCHANGED <<treeVars, geomVars, flagVars, touchVars, raised,
               attrVars, animVars, backendVars, delayVars, modalVars, pumpVars, colorVars, switchVars, threadVars, drawVars>>

\* BaseRuntime._unregister
runtime_unregister(r) ==
  /\ root_to_runtime' = root_to_runtime \ {r}
  /\ hookLog' = <<>>
  /\ result' = "None"
  /\ lastOp' = <<"runtime_unregister", r, r>>
  /\ UNCHANGED <<first_responder, treeVars, geomVars, flagVars, touchVars, raised,
               attrVars, animVars, backendVars, delayVars, modalVars, pumpVars, colorVars, switchVars, threadVars, hookVars, drawVars>>

\* _set_first_responder with the two hooks called in the wrong order.
SetFirstResponderAcquireFirst(old, view) ==
  IF old = view THEN <<>>
  ELSE (IF view # NoView THEN <<<<"acquire", view>>>> ELSE <<>>)
       \o (IF old # NoView THEN <<<<"resign", old>>>> ELSE <<>>)

\* The hooks BaseRuntime._set_first_responder invokes, in order, when the
\* runtime's first responder is old and view is requested.
SetFirstResponderHooks(old, view) ==
  IF old = view THEN <<>>
  ELSE (IF old # NoView THEN <<<<"resign", old>>>> ELSE <<>>)
       \o (IF view # NoView THEN <<<<"acquire", view>>>> ELSE <<>>)

RECURSIVE RuntimeOfNearestRegistered(_)
\* A lookup that stops at the first view on the way up that a runtime was
\* registered under.
RuntimeOfNearestRegistered(v) ==
  IF v \in root_to_runtime THEN v
  ELSE IF superview[v] = NoView THEN NoView
  ELSE RuntimeOfNearestRegistered(superview[v])

\* _get_runtime_for_view: the runtime registered under the root of v's tree
\* (runtimes go by their root view), or None.
get_runtime_for_view(v) ==
  IF RootOf(v) \in root_to_runtime THEN RootOf(v) ELSE NoView

RECURSIVE AfterHooks(_, _)
\* The views that hold an acquire hook not yet followed by their resign hook,
\* once the hooks of log have run on top of held.
AfterHooks(held, log) ==
  IF log = <<>> THEN held
  ELSE AfterHooks(IF Head(log)[1] = "acquire" THEN held \cup {Head(log)[2]}
                  ELSE held \ {Head(log)[2]},
                  Tail(log))

\* View.become_first_responder
become_first_responder(v) ==
  LET r == get_runtime_for_view(v)
  IN  /\ IF r = NoView
         THEN /\ result' = "False"
              /\ hookLog' = <<>>
              /\ UNCHANGED <<first_responder, acquired>>
         ELSE /\ result' = "True"
              /\ hookLog' = SetFirstResponderHooks(first_responder[r], v)
              /\ first_responder' = [first_responder EXCEPT ![r] = v]
              /\ acquired' = [acquired EXCEPT ![r] = AfterHooks(acquired[r], hookLog')]
      /\ lastOp' = <<"become_first_responder", v, v>>
      /\ UNCHANGED <<root_to_runtime, treeVars, geomVars, flagVars, touchVars, raised,
               attrVars, animVars, backendVars, delayVars, modalVars, pumpVars, colorVars, switchVars, threadVars, drawVars>>

RuntimeInitStep == \E r \in WindowRoots : superview[r] = NoView /\ runtime_init(r)

RuntimeUnregisterStep == \E r \in root_to_runtime : runtime_unregister(r)

BecomeFirstResponderStep == \E v \in Views : become_first_responder(v)

\* Application code building and changing the window trees (no view is put
\* under itself or under one of its own descendants).
AttachStep ==
  \E p \in Views, v \in Views :
    /\ ~IsAncestorOrSelf(v, p)
    /\ add_subview(p, v)

DetachStep ==
  \E v \in Views :
    /\ superview[v] # NoView
    /\ remove_subview(superview[v], v)

NextFocus ==
  \/ RuntimeInitStep
  \/ RuntimeUnregisterStep
  \/ BecomeFirstResponderStep
  \/ AttachStep
  \/ DetachStep

SpecFocus ==
  /\ InitFresh
  /\ [][NextFocus]_vars

\* C4: when view B requests focus while a different view A of the same
\* window holds it, A's resign hook runs before B's acquire hook, each exactly
\* once and nothing else, and afterwards B is that window's first responder;
\* a request by the view that already holds focus invokes no hook.
C4_ResignBeforeAcquire ==
  [][\A b \in Views :
       (/\ lastOp' = <<"become_first_responder", b, b>>
        /\ RootOf(b) \in root_to_runtime) =>
         LET a == first_responder[RootOf(b)]
         IN  /\ result' = "True"
             /\ first_responder'[RootOf(b)] = b
             /\ (a # NoView /\ a # b) =>
                  hookLog' = << <<"resign", a>>, <<"acquire", b>> >>
             /\ (a = b) => (hookLog' = <<>> /\ first_responder' = first_responder)
    ]_vars

\* C4 witness: a view has just taken focus from another view of its window.
C4_Witness ==
  \E a \in Views, b \in Views :
    /\ a # b
    /\ lastOp = <<"become_first_responder", b, b>>
    /\ hookLog = << <<"resign", a>>, <<"acquire", b>> >>
    /\ first_responder[RootOf(b)] = b
    /\ RootOf(a) = RootOf(b)

\* ------------------------------------------------------ animated attributes

\* The attribute store the setters work on: the views' attributes together
\* with the recording state of the animation context.
Here ==
  [recording |-> recording, records |-> records, alpha |-> alpha,
   background_color |-> background_color, transform |-> transform,
   frame |-> frame, bounds |-> bounds, needs_display |-> needs_display,
   calls |-> <<>>]

\* Body applied to the value of e, which is computed once.
Bind(e, Body(_)) == CHOOSE out \in {Body(x) : x \in {e}} : TRUE

\* _record, when ctx.recording is set: the write is appended to ctx.records.
Record(st, view, attr, start, end) ==
  [st EXCEPT !.records = Append(@, <<view, attr, start, end>>)]

\* View.set_needs_display
set_needs_display(st, v) == [st EXCEPT !.needs_display[v] = TRUE]

\* View.alpha (setter)
alpha_setter(st, v, value) ==
  IF st.recording THEN Record(st, v, "alpha", st.alpha[v], value)
  ELSE set_needs_display([st EXCEPT !.alpha[v] = value], v)

\* parse_color, for a colour given as a tuple of 4 or of 3 components.
parse_color(c) == IF Len(c) = 4 THEN c ELSE <<c[1], c[2], c[3], 1>>

\* View.background_color (setter)
background_color_setter(st, v, value) ==
  LET parsed == parse_color(value)
  IN  IF st.recording
      THEN Record(st, v, "background_color", st.background_color[v], parsed)
      ELSE set_needs_display([st EXCEPT !.background_color[v] = parsed], v)

\* View.transform (setter)
transform_setter(st, v, value) ==
  IF st.recording THEN Record(st, v, "transform", st.transform[v], value)
  ELSE set_needs_display([st EXCEPT !.transform[v] = value], v)

\* An autoresizing that gives every flagged edge the whole delta.
AutoresizedFrameUnsplit(f, fl, dw, dh) ==
  Rect(IF "L" \in fl THEN FAdd(f.x, dw) ELSE f.x,
       IF "T" \in fl THEN FAdd(f.y, dh) ELSE f.y,
       IF "W" \in fl THEN FAdd(f.w, dw) ELSE f.w,
       IF "H" \in fl THEN FAdd(f.h, dh) ELSE f.h)

\* View._apply_autoresizing: the new frame of subview sv after its superview
\* grew by dw and dh.
AutoresizedFrame(f, fl, dw, dh) ==
  LET h_flexible == Cardinality(fl \cap {"L", "W", "R"})
      v_flexible == Cardinality(fl \cap {"T", "H", "B"})
      x == IF h_flexible = 0 THEN f.x
           ELSE FAdd(f.x, IF "L" \in fl THEN FDiv(dw, h_flexible) ELSE 0)
      w == IF h_flexible = 0 THEN f.w
           ELSE FAdd(f.w, IF "W" \in fl THEN FDiv(dw, h_flexible) ELSE 0)
      y == IF v_flexible = 0 THEN f.y
           ELSE FAdd(f.y, IF "T" \in fl THEN FDiv(dh, v_flexible) ELSE 0)
      h == IF v_flexible = 0 THEN f.h
           ELSE FAdd(f.h, IF "H" \in fl THEN FDiv(dh, v_flexible) ELSE 0)
  IN  Rect(x, y, w, h)

\* A method call made by a geometry setter: the method, the view it is
\* called on and, for _apply_autoresizing, the subviews its loop went over.
Call(method, v, over) == [method |-> method, view |-> v, over |-> over]

Called(st, method, v, over) ==
  [st EXCEPT !.calls = Append(@, Call(method, v, over))]

\* View._apply_autoresizing: the subviews' frames are written directly.
apply_autoresizing(st, v, old_w, old_h) ==
  LET dw == FSub(st.bounds[v].w, old_w)
      dh == FSub(st.bounds[v].h, old_h)
  IN  IF dw = 0 /\ dh = 0 THEN Called(st, "_apply_autoresizing", v, <<>>)
      ELSE Called([st EXCEPT !.frame =
                     [sv \in Views |->
                        IF Contains(subviews[v], sv) /\ flex[sv] # {}
                        THEN AutoresizedFrame(st.frame[sv], flex[sv], dw, dh)
                        ELSE st.frame[sv]]],
                  "_apply_autoresizing", v, subviews[v])

\* self.layout(): the hook of a plain View does nothing.
layout(st, v) == Called(st, "layout", v, <<>>)

\* self.set_needs_display() at the end of the frame and bounds setters.
SetterDirty(st, v) ==
  Called(set_needs_display(st, v), "set_needs_display", v, <<>>)

\* The size branch of the frame and bounds setters with layout() called
\* before _apply_autoresizing.
ResizedLayoutFirst(st, v, old_w, old_h) ==
  apply_autoresizing(layout(st, v), v, old_w, old_h)

\* The size branch of the frame and bounds setters:
\* self._apply_autoresizing(old_w, old_h); self.layout()
Resized(st, v, old_w, old_h) ==
  layout(apply_autoresizing(st, v, old_w, old_h), v)

\* View.frame (setter)
frame_setter(st, v, new_frame) ==
  LET old == st.frame[v]
      s1 == [st EXCEPT !.frame[v] = new_frame]
      s2 == [s1 EXCEPT !.bounds[v] = Rect(@.x, @.y, new_frame.w, new_frame.h)]
  IN  IF st.recording THEN Record(st, v, "frame", old, new_frame)
      ELSE IF new_frame.w # old.w \/ new_frame.h # old.h
      THEN SetterDirty(Resized(s2, v, old.w, old.h), v)
      ELSE SetterDirty(s1, v)

\* View.bounds (setter).  It is not intercepted by animate.
bounds_setter(st, v, new_bounds) ==
  LET old == st.bounds[v]
      s1 == [st EXCEPT !.bounds[v] = new_bounds]
      s2 == [s1 EXCEPT !.frame[v] = Rect(@.x, @.y, new_bounds.w, new_bounds.h)]
  IN  IF new_bounds.w # old.w \/ new_bounds.h # old.h
      THEN SetterDirty(Resized(s2, v, old.w, old.h), v)
      ELSE SetterDirty(s1, v)

\* View.x, View.y, View.width, View.height and View.center (setters)
x_setter(st, v, value) ==
  LET f == st.frame[v] IN frame_setter(st, v, Rect(value, f.y, f.w, f.h))

y_setter(st, v, value) ==
  LET f == st.frame[v] IN frame_setter(st, v, Rect(f.x, value, f.w, f.h))

width_setter(st, v, value) ==
  LET f == st.frame[v] IN frame_setter(st, v, Rect(f.x, f.y, value, f.h))

height_setter(st, v, value) ==
  LET f == st.frame[v] IN frame_setter(st, v, Rect(f.x, f.y, f.w, value))

center_setter(st, v, value) ==
  LET w == st.frame[v].w
      h == st.frame[v].h
  IN  frame_setter(st, v, Rect(FSub(value[1], FDiv(w, 2)),
                               FSub(value[2], FDiv(h, 2)), w, h))

\* setattr(view, attr, value) for the attributes a record can name.
SetAttr(st, v, attr, value) ==
  CASE attr = "alpha" -> alpha_setter(st, v, value)
    [] attr = "background_color" -> background_color_setter(st, v, value)
    [] attr = "transform" -> transform_setter(st, v, value)
    [] attr = "frame" -> frame_setter(st, v, value)

\* An assignment statement of application code, by the name of the property.
Assign(st, v, prop, value) ==
  CASE prop = "x" -> x_setter(st, v, value)
    [] prop = "y" -> y_setter(st, v, value)
    [] prop = "width" -> width_setter(st, v, value)
    [] prop = "height" -> height_setter(st, v, value)
    [] prop = "center" -> center_setter(st, v, value)
    [] prop = "bounds" -> bounds_setter(st, v, value)
    [] OTHER -> SetAttr(st, v, prop, value)

\* ------------------------------------------------------------ interpolation

\* The progress t of a task is a quotient of two times, kept as the fraction
\* n / d.
Frac(n, d) == [n |-> n, d |-> d]

\* _ease_in_out: t * t * (3.0 - 2.0 * t).  The times of the model make every
\* t a multiple of 1/2, for which the float operations are exact.
ease_in_out(t) ==
  Frac(t.n * t.n * (3 * t.d - 2 * t.n), t.d * t.d * t.d)

\* _lerp on two numbers: a + (b - a) * t, each operation rounded.
LerpNum(a, b, t) == FAdd(a, FMulFrac(FSub(b, a), t.n, t.d))

\* _lerp.  The branch is taken by the type of the two values, which is the
\* type of the attribute: a number, a tuple, a Rect, or anything else.
lerp(attr, a, b, t) ==
  CASE attr = "alpha" -> LerpNum(a, b, t)
    [] attr = "background_color" ->
         [i \in 1..(IF Len(a) < Len(b) THEN Len(a) ELSE Len(b)) |->
            LerpNum(a[i], b[i], t)]
    [] attr = "frame" ->
         Rect(LerpNum(a.x, b.x, t), LerpNum(a.y, b.y, t),
              LerpNum(a.w, b.w, t), LerpNum(a.h, b.h, t))
    [] OTHER -> IF t.n >= t.d THEN b ELSE a

\* -------------------------------------------------------- animation engine

\* cb = _completion_once if completion else None
NoCallback == 0

\* _Anim.__init__.  The completion of a task is the call whose
\* _completion_once closure it holds.  The field done is left out: a task
\* whose tick sets it is dropped from the list by that same _tick.
Anim(view, attr, start, end, start_t, duration, completion, call) ==
  [view |-> view, attr |-> attr, start |-> start, end |-> end,
   start_t |-> start_t, duration |-> duration, completion |-> completion,
   call |-> call]

\* _Anim.tick, up to its setattr: the new store and whether the task is done.
Anim_tick(st, a, now) ==
  LET elapsed == now - a.start_t
      raw == IF a.duration > 0 THEN Frac(elapsed, a.duration) ELSE Frac(1, 1)
      done == raw.n >= raw.d
      t == IF done THEN Frac(1, 1) ELSE raw
      value == lerp(a.attr, a.start, a.end, ease_in_out(t))
  IN  IF elapsed < 0
      THEN [st |-> st, acted |-> FALSE, done |-> FALSE]
      ELSE [st |-> SetAttr(st, a.view, a.attr, value), acted |-> TRUE,
            done |-> done]

\* The value attribute attr of view v has in store st.
AttrValue(st, v, attr) ==
  CASE attr = "alpha" -> st.alpha[v]
    [] attr = "background_color" -> st.background_color[v]
    [] attr = "transform" -> st.transform[v]
    [] attr = "frame" -> st.frame[v]

\* A closure that forgets how many tasks its batch still has.
CompletionOnceZero(rem, c) == [rem EXCEPT ![c] = 0]

\* _completion_once: remaining[0] -= 1
completion_once(rem, c) == [rem EXCEPT ![c] = @ - 1]

RECURSIVE TickFrom(_, _, _)
\* _tick: the list comprehension over ctx.active, from task i on.  A task
\* that is done calls its completion, which is _completion_once: it counts
\* remaining[0] down and at zero calls the completion given to animate.
TickFrom(acc, i, now) ==
  IF i > Len(active) THEN acc
  ELSE
    LET a == active[i]
        After(r) ==
          LET calls == r.done /\ a.completion # NoCallback
              rem == IF calls THEN completion_once(acc.rem, a.completion)
                     ELSE acc.rem
              fires == calls /\ rem[a.completion] = 0
              fir == IF fires THEN [acc.fir EXCEPT ![a.completion] = @ + 1]
                     ELSE acc.fir
              entry == [acted |-> r.acted, done |-> r.done,
                        completed |-> fires,
                        after |-> AttrValue(r.st, a.view, a.attr)]
          IN  [st |-> r.st, rem |-> rem, fir |-> fir,
               kept |-> IF r.done THEN acc.kept ELSE Append(acc.kept, a),
               log |-> Append(acc.log, entry)]
        Rest(next) == TickFrom(next, i + 1, now)
    IN  Bind(Bind(Anim_tick(acc.st, a, now), After), Rest)

\* The views' attributes become those of store st.
StoreAttrs(st) ==
  /\ alpha' = st.alpha
  /\ background_color' = st.background_color
  /\ transform' = st.transform
  /\ frame' = st.frame
  /\ bounds' = st.bounds
  /\ needs_display' = st.needs_display
  /\ setter_calls' = st.calls

otherThanAnim ==
  <<treeVars, flagVars, touchVars, focusVars, raised, flex, drawVars, backendVars, delayVars, modalVars, pumpVars, colorVars, switchVars, threadVars, hookVars>>

\* One frame of the window loop: it reads the time and calls _tick(now).
tick(now) ==
  /\ callStack = <<>>
  /\ clock' = now
  /\ IF active = <<>>
     THEN /\ tickLog' = <<>>
          /\ UNCHANGED <<alpha, background_color, transform, setter_calls, frame, bounds,
                         needs_display, records, active, remaining, fired>>
     ELSE \E r \in {TickFrom([st |-> Here, rem |-> remaining, fir |-> fired,
                                kept |-> <<>>, log |-> <<>>], 1, now)} :
              /\ StoreAttrs(r.st)
              /\ records' = r.st.records
              /\ active' = r.kept
              /\ remaining' = r.rem
              /\ fired' = r.fir
              /\ tickLog' = r.log
  /\ lastOp' = <<"tick", now, now>>
  /\ UNCHANGED <<recording, callStack, batch, nextCall, writes, otherThanAnim>>

\* The intercepted attributes of all views, as one value.
Snapshot(st) ==
  [alpha |-> st.alpha, background_color |-> st.background_color,
   transform |-> st.transform, frame |-> st.frame]

\* animate, up to the call of its body: recording starts with no records.
\* The call's frame keeps its arguments, and for the properties below the
\* attributes as they were, the assignments its body has made and how many
\* animate calls its body has made; the assignments stay known after the
\* call has returned.
animate_enter(duration, delay, completion) ==
  /\ nextCall <= MaxCalls
  /\ Len(callStack) < MaxDepth
  /\ recording' = TRUE
  /\ records' = <<>>
  /\ callStack' = Append(
       [i \in 1..Len(callStack) |->
          IF i = Len(callStack) THEN [callStack[i] EXCEPT !.inner = @ + 1]
          ELSE callStack[i]],
       [call |-> nextCall, duration |-> duration, delay |-> delay,
        completion |-> completion, pre |-> Snapshot(Here), written |-> <<>>,
        inner |-> 0])
  /\ nextCall' = nextCall + 1
  /\ tickLog' = <<>>
  /\ lastOp' = <<"animate_enter", nextCall, duration>>
  /\ UNCHANGED <<alpha, background_color, transform, setter_calls, frame, bounds,
                 needs_display, clock, active, remaining, fired, batch,
                 writes, otherThanAnim>>

\* One assignment statement "v.prop = value" of the running animate body.
assign(v, prop, value) ==
  /\ callStack # <<>>
  /\ writes < MaxWrites
  /\ \E st \in {Assign(Here, v, prop, value)} :
       /\ StoreAttrs(st)
       /\ records' = st.records
  /\ callStack' = [callStack EXCEPT ![Len(callStack)].written =
                     Append(@, <<v, prop, value>>)]
  /\ writes' = writes + 1
  /\ tickLog' = <<>>
  /\ lastOp' = <<"assign", v, writes>>
  /\ UNCHANGED <<clock, recording, active, remaining, fired, batch, nextCall,
                 otherThanAnim>>

\* An animate that drops the records of a call without a duration.
ApplyNothing(st, recs, i) == st

RECURSIVE ApplyEnds(_, _, _)
\* for view, attr, _, end in records: setattr(view, attr, end)
ApplyEnds(st, recs, i) ==
  IF i > Len(recs) THEN st
  ELSE LET Rest(next) == ApplyEnds(next, recs, i + 1)
       IN  Bind(SetAttr(st, recs[i][1], recs[i][2], recs[i][4]), Rest)

\* animate, from the return of its body on.
animate_exit ==
  /\ callStack # <<>>
  /\ LET top == callStack[Len(callStack)]
         c == top.call
         recs == records
         n == Len(recs)
         st0 == [Here EXCEPT !.recording = FALSE, !.records = <<>>]
         start_t == clock + top.delay
         cb == IF top.completion THEN c ELSE NoCallback
     IN  /\ recording' = FALSE
         /\ callStack' = SubSeq(callStack, 1, Len(callStack) - 1)
         /\ IF top.duration <= 0
            THEN \E st \in {ApplyEnds(st0, recs, 1)} :
                     /\ StoreAttrs(st)
                     /\ records' = st.records
                     /\ fired' = IF top.completion
                                 THEN [fired EXCEPT ![c] = @ + 1] ELSE fired
                     /\ UNCHANGED <<active, remaining>>
            ELSE IF recs = <<>>
            THEN /\ records' = <<>>
                 /\ fired' = IF top.completion
                             THEN [fired EXCEPT ![c] = @ + 1] ELSE fired
                 /\ UNCHANGED <<alpha, background_color, transform, setter_calls, frame,
                                bounds, needs_display, active, remaining>>
            ELSE /\ records' = <<>>
                 /\ remaining' = [remaining EXCEPT ![c] = n]
                 /\ active' = active \o
                      [i \in 1..n |->
                         Anim(recs[i][1], recs[i][2], recs[i][3], recs[i][4],
                              start_t, top.duration, cb, c)]
                 /\ UNCHANGED <<alpha, background_color, transform, setter_calls, frame,
                                bounds, needs_display, fired>>
         /\ batch' = [batch EXCEPT ![c] =
                        [returned |-> TRUE, duration |-> top.duration,
                         n |-> n, completion |-> top.completion,
                         written |-> top.written]]
         /\ lastOp' = <<"animate_exit", c, top.duration>>
  /\ tickLog' = <<>>
  /\ UNCHANGED <<clock, nextCall, writes, otherThanAnim>>

\* The arguments and assigned values the behaviours draw from.
Big == Pow2(SigBits) + 2

Values == {0, Big}

Durations == {0, 2}

Delays == {0, 1}

FrameProps == {"x", "y", "width", "height"}

AnimViews == {Root}

\* A window whose root view has one subview that resizes with it; the views
\* have been laid out and drawn.
InitAnim ==
  /\ superview = [v \in Views |-> IF v = 2 THEN Root ELSE NoView]
  /\ subviews = [v \in Views |-> IF v = Root THEN <<2>> ELSE <<>>]
  /\ raised = "none"
  /\ lastOp = <<"init", NoView, NoView>>
  /\ frame = [v \in Views |-> IF v = 2 THEN Rect(1, 1, 2, 2) ELSE Rect(0, 0, 4, 4)]
  /\ bounds = [v \in Views |-> IF v = 2 THEN Rect(0, 0, 2, 2) ELSE Rect(0, 0, 4, 4)]
  /\ hidden = [v \in Views |-> FALSE]
  /\ touch_enabled = [v \in Views |-> TRUE]
  /\ multitouch_enabled = [v \in Views |-> FALSE]
  /\ alpha = [v \in Views |-> 1]
  /\ background_color = [v \in Views |-> <<0, 0, 0, 0>>]
  /\ transform = [v \in Views |-> "None"]
  /\ flex = [v \in Views |-> IF v = 2 THEN {"L", "W", "H"} ELSE {}]
  /\ needs_display = [v \in Views |-> superview[v] = NoView /\ v # Root]
  /\ InitNoRuntime
  /\ InitNoFocus
  /\ InitNoAnim
  /\ InitNoBackend
  /\ InitNoModal
  /\ InitNoPump
  /\ InitNoColor
  /\ InitNoCalls
  /\ InitNoSwitch
  /\ InitNoThread
  /\ InitNoHooks
  /\ InitNoDraw

AnimateEnterStep ==
  \E duration \in Durations, delay \in Delays, completion \in BOOLEAN :
    /\ duration <= 0 => delay = 0
    /\ animate_enter(duration, delay, completion)

AssignStep ==
  \E v \in AnimViews :
    \/ \E value \in Values : assign(v, "alpha", value)
    \/ \E prop \in FrameProps : assign(v, prop, Big)
    \/ assign(v, "center", <<Big, 0>>)
    \/ assign(v, "background_color", <<0, Big, 0>>)
    \/ assign(v, "transform", "T1")
    \/ assign(v, "frame", Rect(0, 0, Big, Big))

AnimateExitStep == animate_exit

TickStep ==
  \E now \in {clock, clock + 1} : now <= MaxTime /\ tick(now)

NextAnim ==
  \/ AnimateEnterStep
  \/ AssignStep
  \/ AnimateExitStep
  \/ TickStep

SpecAnim == InitAnim /\ [][NextAnim]_vars

\* The positions in a task list of the tasks animate call c scheduled.
TasksOf(list, c) == {i \in 1..Len(list) : list[i].call = c}

\* Call c returned after scheduling tasks that share a completion callback.
ScheduledWithCompletion(b) ==
  b.returned /\ b.duration > 0 /\ b.n >= 1 /\ b.completion

\* C5: for an animate call with duration > 0 that scheduled n >= 1 tasks the
\* completion callback runs exactly once: it has run once when no task of the
\* batch is left and not at all while one is left, it runs in the tick in which
\* the last task of the batch finishes, and there only after every task of the
\* batch still in the list has made its final write in that tick.
C5_CompletionOnceWhenLastTaskFinishes ==
  [][\A c \in CallIds :
       ScheduledWithCompletion(batch'[c]) =>
         /\ fired'[c] = IF TasksOf(active', c) = {} THEN 1 ELSE 0
         /\ remaining'[c] = Cardinality(TasksOf(active', c))
         /\ fired'[c] # fired[c] =>
              /\ lastOp'[1] = "tick"
              /\ \E i \in TasksOf(active, c) :
                   /\ tickLog'[i].completed
                   /\ \A j \in TasksOf(active, c) :
                        j <= i /\ tickLog'[j].acted /\ tickLog'[j].done]_vars

C5_Witness ==
  /\ lastOp[1] = "tick"
  /\ \E c \in CallIds :
       /\ ScheduledWithCompletion(batch[c])
       /\ batch[c].n = 2
       /\ fired[c] = 1
       /\ \E i \in 1..Len(tickLog) : tickLog[i].completed

\* The attribute a property assignment writes.
AttrOf(prop) ==
  IF prop \in {"x", "y", "width", "height", "center"} THEN "frame" ELSE prop

\* The value attribute attr of view v holds.
AttrNow(v, attr) == AttrValue(Here, v, attr)

\* The end value an assignment "v.prop = value" asks for.
EndValueOf(v, prop, value) ==
  LET f == frame[v]
  IN  CASE prop = "x" -> [f EXCEPT !.x = value]
        [] prop = "y" -> [f EXCEPT !.y = value]
        [] prop = "width" -> [f EXCEPT !.w = value]
        [] prop = "height" -> [f EXCEPT !.h = value]
        [] prop = "center" ->
             [f EXCEPT !.x = FSub(value[1], FDiv(f.w, 2)),
                       !.y = FSub(value[2], FDiv(f.h, 2))]
        [] prop = "background_color" -> parse_color(value)
        [] OTHER -> value

\* The body of the innermost running animate call has had all its assignments
\* captured and none applied.
BodyCaptured(top) ==
  /\ recording
  /\ Snapshot(Here) = top.pre
  /\ Len(records) = Len(top.written)
  /\ \A i \in 1..Len(top.written) :
       LET w == top.written[i]
       IN  /\ records[i][1] = w[1]
           /\ records[i][2] = AttrOf(w[2])
           /\ records[i][3] = AttrNow(w[1], AttrOf(w[2]))
           /\ records[i][4] = EndValueOf(w[1], w[2], w[3])

\* C6: while the body of an animate call runs, every assignment it has made
\* to an intercepted attribute is in the records as (view, attribute, old,
\* new) and the attributes still hold their values from before the body; when
\* no animate call is running, recording is off.
C6_BodyWritesCapturedNotApplied ==
  /\ callStack # <<>> => BodyCaptured(callStack[Len(callStack)])
  /\ callStack = <<>> => ~recording

\* The same for a body that has not called animate itself.
C6_HoldsWithoutNestedCall ==
  /\ (callStack # <<>> /\ callStack[Len(callStack)].inner = 0) =>
        BodyCaptured(callStack[Len(callStack)])
  /\ callStack = <<>> => ~recording

\* An outer body assigns after the animate call it made has returned.
C6_NestedCase ==
  /\ callStack # <<>>
  /\ callStack[Len(callStack)].inner > 0
  /\ callStack[Len(callStack)].written # <<>>
  /\ lastOp[1] = "assign"

\* Record i is the last one of its view and attribute.
LastOfItsAttr(recs, i) ==
  \A j \in (i + 1)..Len(recs) :
    ~(recs[j][1] = recs[i][1] /\ recs[j][2] = recs[i][2])

\* C7: an animate call with duration <= 0 has, when it returns, applied the
\* end value of every record it held through the real setter (the attribute
\* holds the end value of its last record, the view is marked for display and
\* a frame's size is also the bounds' size), has run its completion exactly
\* once if it was given one, and has left the active list as it was.
C7_ImmediateWhenNoDuration ==
  [][(lastOp'[1] = "animate_exit" /\ lastOp'[3] <= 0) =>
       LET top == callStack[Len(callStack)]
           c == top.call
       IN  /\ \A i \in 1..Len(records) :
                LET v == records[i][1]
                    attr == records[i][2]
                IN  /\ needs_display'[v]
                    /\ LastOfItsAttr(records, i) =>
                         /\ AttrValue(Here', v, attr) = records[i][4]
                         /\ attr = "frame" =>
                              /\ bounds'[v].w = records[i][4].w
                              /\ bounds'[v].h = records[i][4].h
           /\ fired[c] = 0
           /\ fired'[c] = IF top.completion THEN 1 ELSE 0
           /\ active' = active
           /\ Len(callStack') = Len(callStack) - 1
           /\ ~recording']_vars

C7_Witness ==
  /\ lastOp[1] = "animate_exit"
  /\ lastOp[3] <= 0
  /\ batch[lastOp[2]].n = 2
  /\ batch[lastOp[2]].completion
  /\ fired[lastOp[2]] = 1
  /\ alpha[Root] = Big
  /\ frame[Root].x = Big

RECURSIVE KeptFrom(_, _, _)
\* The tasks of a list, from position i on, a tick's log does not mark done.
KeptFrom(list, log, i) ==
  IF i > Len(list) THEN <<>>
  ELSE IF log[i].done THEN KeptFrom(list, log, i + 1)
  ELSE <<list[i]>> \o KeptFrom(list, log, i + 1)

\* C8: for a task with duration > 0, a tick before its start time makes no
\* write and keeps the task, a tick at its start time writes the start value,
\* and a tick at or after start + duration writes exactly the end value and
\* drops the task from the active list.
C8_TickSamplesStartAndEnd ==
  [][(lastOp'[1] = "tick" /\ active # <<>>) =>
       /\ active' = KeptFrom(active, tickLog', 1)
       /\ \A i \in 1..Len(active) :
            LET a == active[i]
                e == tickLog'[i]
                now == clock'
            IN  a.duration > 0 =>
                  /\ now < a.start_t => ~e.acted /\ ~e.done
                  /\ now = a.start_t => e.acted /\ e.after = a.start
                  /\ now >= a.start_t + a.duration =>
                       e.acted /\ e.done /\ e.after = a.end]_vars

\* The same with "a value within one rounding step of the end value" left
\* out: what a tick at or after start + duration does to the list.
C8_TickTimesAndList ==
  [][(lastOp'[1] = "tick" /\ active # <<>>) =>
       /\ active' = KeptFrom(active, tickLog', 1)
       /\ \A i \in 1..Len(active) :
            LET a == active[i]
                e == tickLog'[i]
                now == clock'
            IN  a.duration > 0 =>
                  /\ now < a.start_t => ~e.acted /\ ~e.done
                  /\ now = a.start_t => e.acted /\ e.after = a.start
                  /\ now >= a.start_t + a.duration => e.acted /\ e.done]_vars

\* ---------------------------------------------------------- graphics state

FMul(a, b) == FRound(a * b, 1)

\* Transform.concat (the Python fallback)
concat(m, o) ==
  Transform(FAdd(FMul(m.a, o.a), FMul(m.c, o.b)),
            FAdd(FMul(m.b, o.a), FMul(m.d, o.b)),
            FAdd(FMul(m.a, o.c), FMul(m.c, o.d)),
            FAdd(FMul(m.b, o.c), FMul(m.d, o.d)),
            FAdd(FAdd(FMul(m.a, o.tx), FMul(m.c, o.ty)), m.tx),
            FAdd(FAdd(FMul(m.b, o.tx), FMul(m.d, o.ty)), m.ty))

\* Transform.scale and Transform.translation
scale(sx, sy) == Transform(sx, 0, 0, sy, 0, 0)

translation(tx, ty) == Transform(1, 0, 0, 1, tx, ty)

\* _sync_ctm_to_rust: the backend, if there is one, is handed T(origin) * ctm.
sync_ctm_to_rust(c) ==
  IF c.backend = "None" THEN c
  ELSE [c EXCEPT !.backend_ctm =
          Transform(c.ctm.a, c.ctm.b, c.ctm.c, c.ctm.d,
                    FAdd(c.ctm.tx, c.origin[1]), FAdd(c.ctm.ty, c.origin[2]))]

\* The dictionary _save_gstate builds; its ctm is a copy of ctx.ctm.
GStateOf(c) ==
  [color |-> c.color, blend_mode |-> c.blend_mode, origin |-> c.origin,
   shadow |-> c.shadow,
   ctm |-> Transform(c.ctm.a, c.ctm.b, c.ctm.c, c.ctm.d, c.ctm.tx, c.ctm.ty),
   alpha |-> c.alpha]

\* _save_gstate
save_gstate(c) == [c EXCEPT !.stack = Append(@, GStateOf(c))]

\* A restore that puts the saved state back but leaves it on the stack.
RestoreWithoutPop(c) ==
  IF c.stack = <<>> THEN c
  ELSE LET state == c.stack[Len(c.stack)]
       IN  sync_ctm_to_rust(
             [c EXCEPT !.color = state.color, !.blend_mode = state.blend_mode,
                       !.origin = state.origin, !.shadow = state.shadow,
                       !.ctm = state.ctm, !.alpha = state.alpha])

\* _restore_gstate
restore_gstate(c) ==
  IF c.stack = <<>> THEN c
  ELSE LET state == c.stack[Len(c.stack)]
       IN  sync_ctm_to_rust(
             [c EXCEPT !.stack = SubSeq(@, 1, Len(@) - 1),
                       !.color = state.color, !.blend_mode = state.blend_mode,
                       !.origin = state.origin, !.shadow = state.shadow,
                       !.ctm = state.ctm, !.alpha = state.alpha])

\* set_backend, _set_origin, set_alpha, set_color, set_blend_mode, concat_ctm
\* and set_shadow
set_backend(c, backend) == sync_ctm_to_rust([c EXCEPT !.backend = backend])

set_origin(c, x, y) == sync_ctm_to_rust([c EXCEPT !.origin = <<x, y>>])

set_alpha(c, a) ==
  [c EXCEPT !.alpha = IF a > 1 THEN 1 ELSE IF a < 0 THEN 0 ELSE a]

set_color(c, color) == [c EXCEPT !.color = parse_color(color)]

set_blend_mode(c, mode) == [c EXCEPT !.blend_mode = mode]

concat_ctm(c, t) == sync_ctm_to_rust([c EXCEPT !.ctm = concat(@, t)])

set_shadow(c, color, offset_x, offset_y, blur_radius) ==
  [c EXCEPT !.shadow = <<parse_color(color), offset_x, offset_y, blur_radius>>]

\* What a caller can observe of the graphics state: the depth of the stack
\* and the six fields a GState scope saves.
Observed(c) ==
  [depth |-> Len(c.stack), color |-> c.color, blend_mode |-> c.blend_mode,
   origin |-> c.origin, shadow |-> c.shadow, ctm |-> c.ctm, alpha |-> c.alpha]

\* ------------------------------------------------------------- paint code

\* Paint code is a sequence of statements: calls of the functions above,
\* "enter" and "exit" of a "with GState():" block, and "raise".
Stmt(op, arg) == [op |-> op, arg |-> arg]

\* One call of a drawing function.
RunStmt(c, s) ==
  CASE s.op = "set_origin" -> set_origin(c, s.arg[1], s.arg[2])
    [] s.op = "set_alpha" -> set_alpha(c, s.arg)
    [] s.op = "set_color" -> set_color(c, s.arg)
    [] s.op = "set_blend_mode" -> set_blend_mode(c, s.arg)
    [] s.op = "concat_ctm" -> concat_ctm(c, s.arg)
    [] s.op = "set_shadow" ->
         set_shadow(c, s.arg[1], s.arg[2], s.arg[3], s.arg[4])

\* GState.__exit__ of the innermost open scope of run r; the scope is logged
\* with what could be observed when it was entered and when it was left.
ExitScope(r) ==
  LET c == restore_gstate(r.ctx)
  IN  [r EXCEPT !.ctx = c,
                !.open = SubSeq(@, 1, Len(@) - 1),
                !.log = Append(@, [entry |-> r.open[Len(r.open)],
                                   exit |-> Observed(c)])]

RECURSIVE Unwind(_)
\* An exception leaves every open "with" block through its __exit__.
Unwind(r) == IF r.open = <<>> THEN r ELSE Unwind(ExitScope(r))

RECURSIVE Paint(_, _, _)
\* The run of paint code prog from statement i on.
Paint(r, prog, i) ==
  IF i > Len(prog) THEN r
  ELSE LET s == prog[i]
       IN  CASE s.op = "enter" ->
                  Paint([r EXCEPT !.ctx = save_gstate(@),
                                  !.open = Append(@, Observed(r.ctx))],
                        prog, i + 1)
             [] s.op = "exit" -> Paint(ExitScope(r), prog, i + 1)
             [] s.op = "raise" -> Unwind([r EXCEPT !.raised = TRUE])
             [] OTHER -> Paint([r EXCEPT !.ctx = RunStmt(@, s)], prog, i + 1)

\* ------------------------------------------------------------ render pass

Concat(t) == Stmt("concat_ctm", t)

Min(a, b) == IF a < b THEN a ELSE b

Max(a, b) == IF a > b THEN a ELSE b

\* _content_mode_transform: the concat_ctm calls it makes.
content_mode_transform(mode, cw, ch, fw, fh) ==
  LET fit == Min(FRound(fw, cw), FRound(fh, ch))
      fill == Max(FRound(fw, cw), FRound(fh, ch))
      dx == FSub(fw, cw)
      dy == FSub(fh, ch)
      Centered(sc) ==
        <<Concat(translation(FDiv(FSub(fw, FMul(cw, sc)), 2),
                             FDiv(FSub(fh, FMul(ch, sc)), 2))),
          Concat(scale(sc, sc))>>
  IN  IF cw <= 0 \/ ch <= 0 \/ fw <= 0 \/ fh <= 0 THEN <<>>
      ELSE CASE mode = "CONTENT_SCALE_TO_FILL" ->
                  <<Concat(scale(FRound(fw, cw), FRound(fh, ch)))>>
             [] mode = "CONTENT_SCALE_ASPECT_FIT" -> Centered(fit)
             [] mode = "CONTENT_SCALE_ASPECT_FILL" -> Centered(fill)
             [] mode = "CONTENT_CENTER" ->
                  <<Concat(translation(FDiv(dx, 2), FDiv(dy, 2)))>>
             [] mode = "CONTENT_TOP" -> <<Concat(translation(FDiv(dx, 2), 0))>>
             [] mode = "CONTENT_BOTTOM" ->
                  <<Concat(translation(FDiv(dx, 2), dy))>>
             [] mode = "CONTENT_LEFT" -> <<Concat(translation(0, FDiv(dy, 2)))>>
             [] mode = "CONTENT_RIGHT" ->
                  <<Concat(translation(dx, FDiv(dy, 2)))>>
             [] mode = "CONTENT_TOP_RIGHT" -> <<Concat(translation(dx, 0))>>
             [] mode = "CONTENT_BOTTOM_LEFT" -> <<Concat(translation(0, dy))>>
             [] mode = "CONTENT_BOTTOM_RIGHT" -> <<Concat(translation(dx, dy))>>
             [] OTHER -> <<>>

\* View.__init__: _border_color
DefaultBorderColor == <<0, 0, 0, 1>>

\* The draw() methods the views of the model have.
DrawCode(name) ==
  CASE name = "nothing" -> <<>>
    [] name = "unscoped" ->
         <<Stmt("set_color", <<Big, 0, 0>>),
           Stmt("set_blend_mode", "BLEND_COPY"),
           Stmt("set_shadow", <<<<0, 0, 0>>, 1, 1, 2>>),
           Concat(scale(2, 2))>>
    [] name = "scoped" ->
         <<Stmt("enter", 0), Concat(translation(1, 1)),
           Stmt("set_color", <<0, Big, 0, 1>>), Stmt("exit", 0),
           Stmt("set_alpha", 0)>>
    [] name = "raises" ->
         <<Stmt("set_color", <<0, 0, Big>>), Stmt("enter", 0),
           Concat(scale(2, 2)), Stmt("set_shadow", <<<<0, 0, 0>>, 1, 1, 2>>),
           Stmt("raise", 0)>>

DrawCodes == {"nothing", "unscoped", "scoped", "raises"}

\* Whether View._render calls draw() without a content-mode transform.
DrawsDirectly(v) ==
  \/ content_mode[v] = "CONTENT_REDRAW"
  \/ content_draw[v][1] <= 0
  \/ content_draw[v][2] <= 0

\* View._render of a view that is not hidden, from "with GState():" to the
\* end of that block, as paint code around the view's draw().
ViewPaint(v, draw) ==
  LET o == ScreenOrigin(v)
      fw == frame[v].w
      fh == frame[v].h
      bg == background_color[v]
  IN  <<Stmt("enter", 0), Stmt("set_origin", o), Stmt("set_alpha", alpha[v])>>
      \o (IF bg[4] > 0 THEN <<Stmt("set_color", bg)>> ELSE <<>>)
      \o (IF border_width[v] > 0
          THEN <<Stmt("set_color", DefaultBorderColor)>> ELSE <<>>)
      \o (IF DrawsDirectly(v) THEN DrawCode(draw)
          ELSE <<Stmt("enter", 0)>>
               \o content_mode_transform(content_mode[v], content_draw[v][1],
                                         content_draw[v][2], fw, fh)
               \o DrawCode(draw) \o <<Stmt("exit", 0)>>)
      \o <<Stmt("exit", 0)>>

RECURSIVE any_dirty(_)
\* _any_dirty
any_dirty(v) ==
  \/ needs_display[v]
  \/ \E i \in 1..Len(subviews[v]) : any_dirty(subviews[v][i])

otherThanDraw ==
  <<treeVars, geomVars, flagVars, touchVars, focusVars, animVars, backendVars, delayVars, modalVars, pumpVars, colorVars, switchVars, threadVars, hookVars, alpha,
    background_color, transform, flex>>

\* SDLRuntime.run with needs_redraw true, up to the call of root._render in
\* render_fn: set_backend(fb).
render_frame_begin ==
  /\ ~rendering
  /\ raised = "none"
  /\ any_dirty(Root)
  /\ rendering' = TRUE
  /\ pending' = <<Root>>
  /\ ctx' = set_backend(ctx, "fb")
  /\ passEntry' = Observed(ctx')
  /\ scopeLog' = <<>>
  /\ painted' = <<>>
  /\ lastOp' = <<"render_frame_begin", Root, Root>>
  /\ UNCHANGED <<needs_display, raised, border_width, content_mode,
                 content_draw, scopes, otherThanDraw>>

\* A pass that visits the subviews of a view last to first.
PendingAfterReversed(v, rest) ==
  [i \in 1..Len(subviews[v]) |-> subviews[v][Len(subviews[v]) + 1 - i]] \o rest

\* "for sv in self._subviews: sv._render()": the calls that follow the
\* painting of view v, before those already pending.
PendingAfter(v, rest) == subviews[v] \o rest

\* View._render of the next view of the pass, the calls for its subviews left
\* pending.  An exception of draw() ends the pass and the window loop.
render(draw) ==
  /\ rendering
  /\ pending # <<>>
  /\ LET v == Head(pending)
         r == Paint([ctx |-> ctx, open |-> <<>>, log |-> <<>>,
                     raised |-> FALSE], ViewPaint(v, draw), 1)
     IN  /\ needs_display' = [needs_display EXCEPT ![v] = FALSE]
         /\ lastOp' = <<"render", v, v>>
         /\ IF hidden[v]
            THEN /\ draw = "nothing"
                 /\ pending' = Tail(pending)
                 /\ scopeLog' = <<>>
                 /\ UNCHANGED <<ctx, content_draw, rendering, raised, painted>>
            ELSE /\ ctx' = r.ctx
                 /\ painted' = Append(painted, v)
                 /\ scopeLog' = r.log
                 /\ content_draw' =
                      IF content_mode[v] # "CONTENT_REDRAW" /\ DrawsDirectly(v)
                      THEN [content_draw EXCEPT ![v] = <<frame[v].w, frame[v].h>>]
                      ELSE content_draw
                 /\ IF r.raised
                    THEN /\ pending' = <<>>
                         /\ rendering' = FALSE
                         /\ raised' = "Exception"
                    ELSE /\ pending' = PendingAfter(v, Tail(pending))
                         /\ UNCHANGED <<rendering, raised>>
  /\ UNCHANGED <<border_width, content_mode, scopes, passEntry, otherThanDraw>>

\* render_fn after root._render returned: set_backend(None).
render_frame_end ==
  /\ rendering
  /\ pending = <<>>
  /\ rendering' = FALSE
  /\ ctx' = set_backend(ctx, "None")
  /\ scopeLog' = <<>>
  /\ lastOp' = <<"render_frame_end", Root, Root>>
  /\ UNCHANGED <<needs_display, raised, pending, border_width, content_mode,
                 content_draw, scopes, passEntry, painted, otherThanDraw>>

\* SDLRuntime.run with needs_redraw false: the loop sleeps the long delay.
idle ==
  /\ ~rendering
  /\ raised = "none"
  /\ ~any_dirty(Root)
  /\ scopeLog' = <<>>
  /\ lastOp' = <<"idle", Root, Root>>
  /\ UNCHANGED <<ctx, needs_display, raised, rendering, pending, border_width,
                 content_mode, content_draw, scopes, passEntry, painted, otherThanDraw>>

\* Application code between two frames: view.set_needs_display()
mark_dirty(v) ==
  /\ ~rendering
  /\ needs_display' = [needs_display EXCEPT ![v] = TRUE]
  /\ scopeLog' = <<>>
  /\ lastOp' = <<"mark_dirty", v, v>>
  /\ UNCHANGED <<ctx, raised, rendering, pending, border_width, content_mode,
                 content_draw, scopes, passEntry, painted, otherThanDraw>>

\* Application code between two frames: a drawing call outside any view.
draw_call(s) ==
  /\ ~rendering
  /\ ctx' = RunStmt(ctx, s)
  /\ scopeLog' = <<>>
  /\ lastOp' = <<"draw_call", NoView, NoView>>
  /\ UNCHANGED <<needs_display, raised, rendering, pending, border_width,
                 content_mode, content_draw, scopes, passEntry, painted, otherThanDraw>>

\* Application code between two frames: GState.__enter__
gstate_enter ==
  /\ ~rendering
  /\ Len(scopes) < MaxScopes
  /\ ctx' = save_gstate(ctx)
  /\ scopes' = Append(scopes, Observed(ctx))
  /\ scopeLog' = <<>>
  /\ lastOp' = <<"gstate_enter", NoView, NoView>>
  /\ UNCHANGED <<needs_display, raised, rendering, pending, border_width,
                 content_mode, content_draw, passEntry, painted, otherThanDraw>>

\* Application code between two frames: GState.__exit__
gstate_exit ==
  /\ ~rendering
  /\ scopes # <<>>
  /\ ctx' = restore_gstate(ctx)
  /\ scopes' = SubSeq(scopes, 1, Len(scopes) - 1)
  /\ scopeLog' = <<[entry |-> scopes[Len(scopes)], exit |-> Observed(ctx')]>>
  /\ lastOp' = <<"gstate_exit", NoView, NoView>>
  /\ UNCHANGED <<needs_display, raised, rendering, pending, border_width,
                 content_mode, content_draw, passEntry, painted, otherThanDraw>>

\* View.hidden (setter), called between two frames.
hide(v, b) ==
  /\ ~rendering
  /\ hidden' = [hidden EXCEPT ![v] = b]
  /\ needs_display' = [needs_display EXCEPT ![v] = TRUE]
  /\ scopeLog' = <<>>
  /\ lastOp' = <<"hide", v, v>>
  /\ UNCHANGED <<ctx, raised, rendering, pending, border_width, content_mode,
                 content_draw, scopes, passEntry, painted, treeVars, geomVars,
                 touch_enabled, multitouch_enabled, touchVars, focusVars,
                 animVars, backendVars, delayVars, modalVars, pumpVars, colorVars, switchVars, threadVars, hookVars, alpha, background_color, transform, flex>>

RenderLayouts == {"chain", "siblings"}

\* A window on root view 1: either 1 > 2 > 3 or 1 > 2, 3.  The views are
\* freshly built, so all of them need display; view 2 has a background and a
\* border, view 3 is a View subclass that redraws its content.
InitRender ==
  /\ \E l \in RenderLayouts :
       /\ superview = [v \in Views |->
            IF v = 2 THEN Root
            ELSE IF v = 3 THEN (IF l = "chain" THEN 2 ELSE Root)
            ELSE NoView]
       /\ subviews = [v \in Views |->
            IF v = Root THEN (IF l = "chain" THEN <<2>> ELSE <<2, 3>>)
            ELSE IF v = 2 /\ l = "chain" THEN <<3>>
            ELSE <<>>]
  /\ raised = "none"
  /\ lastOp = <<"init", NoView, NoView>>
  /\ frame = [v \in Views |-> IF v = Root THEN Rect(0, 0, 4, 4) ELSE Rect(1, 1, 2, 2)]
  /\ bounds = [v \in Views |-> IF v = Root THEN Rect(0, 0, 4, 4) ELSE Rect(0, 0, 2, 2)]
  /\ hidden = [v \in Views |-> FALSE]
  /\ touch_enabled = [v \in Views |-> TRUE]
  /\ multitouch_enabled = [v \in Views |-> FALSE]
  /\ alpha = [v \in Views |-> IF v = 3 THEN Big ELSE 1]
  /\ background_color = [v \in Views |->
       IF v = 2 THEN <<0, 0, Big, 1>> ELSE <<0, 0, 0, 0>>]
  /\ transform = [v \in Views |-> "None"]
  /\ flex = [v \in Views |-> {}]
  /\ needs_display = [v \in Views |-> TRUE]
  /\ ctx = NewDrawCtx
  /\ border_width = [v \in Views |-> IF v = 2 THEN 1 ELSE 0]
  /\ content_mode = [v \in Views |->
       IF v = 3 THEN "CONTENT_REDRAW" ELSE "CONTENT_SCALE_TO_FILL"]
  /\ content_draw = [v \in Views |-> <<0, 0>>]
  /\ rendering = FALSE
  /\ pending = <<>>
  /\ scopes = <<>>
  /\ scopeLog = <<>>
  /\ passEntry = Observed(NewDrawCtx)
  /\ painted = <<>>
  /\ InitNoRuntime
  /\ InitNoFocus
  /\ InitNoAnim
  /\ InitNoBackend
  /\ InitNoModal
  /\ InitNoPump
  /\ InitNoColor
  /\ InitNoCalls
  /\ InitNoSwitch
  /\ InitNoThread
  /\ InitNoHooks

RenderFrameBeginStep == render_frame_begin

RenderStep == \E draw \in DrawCodes : render(draw)

RenderFrameEndStep == render_frame_end

IdleStep == idle

MarkDirtyStep == \E v \in {Root, 3} : mark_dirty(v)

HideStep == \E b \in BOOLEAN : hide(2, b)

DrawCallStep ==
  \/ ctx.color = NewDrawCtx.color /\ draw_call(Stmt("set_color", <<Big, 0, 0>>))
  \/ ctx.ctm.tx < MaxShift /\ draw_call(Concat(translation(1, 0)))

GStateEnterStep == gstate_enter

GStateExitStep == gstate_exit

NextRender ==
  \/ RenderFrameBeginStep
  \/ RenderStep
  \/ RenderFrameEndStep
  \/ IdleStep
  \/ MarkDirtyStep
  \/ HideStep
  \/ DrawCallStep
  \/ GStateEnterStep
  \/ GStateExitStep

SpecRender == InitRender /\ [][NextRender]_vars

\* C9: every GState scope that is closed, by paint code returning or by an
\* exception passing through it, leaves the stack depth and the color, blend
\* mode, origin, shadow, CTM and alpha as they were when it was entered; and
\* between the views of a render pass, and after the pass has returned or
\* raised, they are as they were when the pass began.
C9_GStateBalanced ==
  /\ \A i \in 1..Len(scopeLog) : scopeLog[i].exit = scopeLog[i].entry
  /\ (rendering \/ lastOp[1] \in {"render", "render_frame_end"}) =>
       Observed(ctx) = passEntry

C9_Witness ==
  /\ lastOp[1] = "render"
  /\ raised = "Exception"
  /\ Len(scopeLog) = 3
  /\ Len(ctx.stack) = 1
  /\ ctx.color # NewDrawCtx.color
  /\ ctx.ctm # IDENTITY_TRANSFORM

\* The views of the window: those any_dirty(root) looks at.
RECURSIVE Subtree(_)
Subtree(v) ==
  {v} \cup UNION {Subtree(subviews[v][i]) : i \in 1..Len(subviews[v])}

\* C10: when a render pass over the root has returned, every view of the
\* window has its dirty flag cleared, so _any_dirty(root) is false and the
\* next iteration of the window loop idles.
C10_CleanAfterRenderPass ==
  lastOp[1] = "render_frame_end" =>
    /\ \A v \in Subtree(Root) : ~needs_display[v]
    /\ ~any_dirty(Root)

\* The same for a window in which no view with subviews is hidden.
C10_HoldsWhenNoParentHidden ==
  (/\ lastOp[1] = "render_frame_end"
   /\ \A v \in Subtree(Root) : hidden[v] => subviews[v] = <<>>) =>
    ~any_dirty(Root)

\* A pass over a window all of whose views are visible has returned.
C10_VisibleCase ==
  /\ lastOp[1] = "render_frame_end"
  /\ \A v \in Subtree(Root) : ~hidden[v]

\* ------------------------------------------------------- view geometry

\* The classes whose constructors set a size.
Kinds ==
  {"View", "ActivityIndicator", "Button", "Label", "SegmentedControl", "Switch"}

\* The _frame a constructor leaves, in units of 20 points (a Button's
\* 80 x 44 is 4 x 2).  Switch assigns self.frame, the others self._frame.
CtorFrame(kind) ==
  CASE kind = "View" -> Rect(0, 0, 5, 5)
    [] kind = "ActivityIndicator" -> Rect(0, 0, 1, 1)
    [] kind = "Button" -> Rect(0, 0, 4, 2)
    [] kind = "Label" -> Rect(0, 0, 5, 1)
    [] kind = "SegmentedControl" -> Rect(0, 0, 6, 2)
    [] kind = "Switch" -> Rect(0, 0, 3, 2)

\* The _bounds a constructor leaves: View.__init__'s, unless the class sets
\* _bounds itself (ActivityIndicator) or goes through the frame setter
\* (Switch).
CtorBounds(kind) ==
  CASE kind = "ActivityIndicator" -> Rect(0, 0, 1, 1)
    [] kind = "Switch" -> Rect(0, 0, 3, 2)
    [] OTHER -> Rect(0, 0, 5, 5)

\* The letters of a flex string.
Flags == {"L", "W", "R", "T", "H", "B"}

\* One geometry assignment "v.prop = value" of application code, made
\* outside any animate body.
write(v, prop, value) ==
  /\ callStack = <<>>
  /\ writes < MaxWrites
  /\ \E st \in {Assign(Here, v, prop, value)} :
       /\ StoreAttrs(st)
       /\ records' = st.records
  /\ writes' = writes + 1
  /\ lastOp' = <<"write", v, prop>>
  /\ UNCHANGED <<clock, recording, active, callStack, remaining, fired, batch,
                 nextCall, tickLog, otherThanAnim>>

\* Three fresh views in a chain 1 > 2 > 3: view 2 has any flex, view 3 is of
\* any class and resizes with view 2.
InitGeom ==
  /\ superview = [v \in Views |-> IF v = 1 THEN NoView ELSE v - 1]
  /\ subviews = [v \in Views |-> IF v < NumViews THEN <<v + 1>> ELSE <<>>]
  /\ raised = "none"
  /\ lastOp = <<"init", NoView, "">>
  /\ \E kind \in Kinds :
       /\ frame = [v \in Views |->
                     IF v = 3 THEN CtorFrame(kind) ELSE CtorFrame("View")]
       /\ bounds = [v \in Views |->
                      IF v = 3 THEN CtorBounds(kind) ELSE CtorBounds("View")]
       /\ content_mode = [v \in Views |->
                            IF v = 3 /\ kind # "View" THEN "CONTENT_REDRAW"
                            ELSE "CONTENT_SCALE_TO_FILL"]
  /\ hidden = [v \in Views |-> FALSE]
  /\ touch_enabled = [v \in Views |-> TRUE]
  /\ multitouch_enabled = [v \in Views |-> FALSE]
  /\ alpha = [v \in Views |-> 1]
  /\ background_color = [v \in Views |-> <<0, 0, 0, 0>>]
  /\ transform = [v \in Views |-> "None"]
  /\ \E fl \in SUBSET Flags :
       flex = [v \in Views |->
                 IF v = 2 THEN fl ELSE IF v = 3 THEN {"W", "H"} ELSE {}]
  /\ needs_display = [v \in Views |-> TRUE]
  /\ ctx = NewDrawCtx
  /\ border_width = [v \in Views |-> 0]
  /\ content_draw = [v \in Views |-> <<0, 0>>]
  /\ rendering = FALSE
  /\ pending = <<>>
  /\ scopes = <<>>
  /\ scopeLog = <<>>
  /\ passEntry = <<>>
  /\ painted = <<>>
  /\ InitNoRuntime
  /\ InitNoFocus
  /\ InitNoAnim
  /\ InitNoBackend
  /\ InitNoModal
  /\ InitNoPump
  /\ InitNoColor
  /\ InitNoCalls
  /\ InitNoSwitch
  /\ InitNoThread
  /\ InitNoHooks

\* The values the assignments draw from.
GeomFrames == {Rect(1, 1, 8, 8), Rect(0, 0, 2, 5)}

GeomBounds == {Rect(1, 1, 8, 2)}

WriteStep ==
  \E v \in Views :
    \/ \E value \in GeomFrames : write(v, "frame", value)
    \/ \E value \in GeomBounds : write(v, "bounds", value)
    \/ write(v, "x", 1)
    \/ write(v, "y", 1)
    \/ write(v, "width", 8)
    \/ write(v, "height", 2)
    \/ write(v, "center", <<4, 4>>)

NextGeom == WriteStep

SpecGeom == InitGeom /\ [][NextGeom]_vars

\* C11: in every reachable state each view's frame width and height equal
\* its bounds width and height: for freshly constructed views and widgets,
\* after any sequence of frame / bounds / x / y / width / height / center
\* writes, and for children whose frames a parent's autoresizing changed.
C11_FrameSizeEqualsBoundsSize ==
  \A v \in Views : frame[v].w = bounds[v].w /\ frame[v].h = bounds[v].h

\* What the autoresizing rule gives a child with frame f and flex fl when
\* its parent's size changes by (dw, dh): per axis the delta is split among
\* the flags of that axis present in fl, and x, width, y, height take one
\* share each iff L, W, T, H are present.
SharedFrame(f, fl, dw, dh) ==
  LET nh == Cardinality(fl \cap {"L", "W", "R"})
      nv == Cardinality(fl \cap {"T", "H", "B"})
      sh == IF nh = 0 THEN 0 ELSE FDiv(dw, nh)
      sv == IF nv = 0 THEN 0 ELSE FDiv(dh, nv)
  IN  IF fl = {} THEN f
      ELSE Rect(IF "L" \in fl THEN FAdd(f.x, sh) ELSE f.x,
                IF "T" \in fl THEN FAdd(f.y, sv) ELSE f.y,
                IF "W" \in fl THEN FAdd(f.w, sh) ELSE f.w,
                IF "H" \in fl THEN FAdd(f.h, sv) ELSE f.h)

\* The size the assignment of prop changes: the bounds for "bounds", the
\* frame for the others.
SizeWritten(prop, f, b) == IF prop = "bounds" THEN b ELSE f

\* C12: when an assignment changes a parent's size by (dw, dh), each direct
\* child gets x += share iff L, width += share iff W, y += share iff T and
\* height += share iff H, with share = delta / (number of that axis's flags in
\* its flex), the sums and quotients being those of floats; a child with
\* empty flex is unchanged, and so is every view that is not a direct child.
C12_AutoresizingShares ==
  [][lastOp'[1] = "write" =>
       LET p == lastOp'[2]
           old == SizeWritten(lastOp'[3], frame[p], bounds[p])
           new == SizeWritten(lastOp'[3], frame'[p], bounds'[p])
       IN  \A c \in Views \ {p} :
             frame'[c] =
               IF Contains(subviews[p], c)
               THEN SharedFrame(frame[c], flex[c], FSub(new.w, old.w),
                                FSub(new.h, old.h))
               ELSE frame[c]]_vars

\* The root was resized and its child, flexible on all three horizontal
\* edges, took a third of the change on x and on width.
C12_Witness ==
  /\ lastOp = <<"write", 1, "frame">>
  /\ writes = 1
  /\ flex[2] = {"L", "W", "R"}
  /\ frame[1].w = 8
  /\ frame[2] = Rect(1, 0, 6, 5)

\* ------------------------------------------------------------ the hit-test

RECURSIVE ClimbsOut(_, _, _)
\* Whether following par from v reaches a view without parent in n steps.
ClimbsOut(par, v, n) ==
  IF par[v] = NoView THEN TRUE
  ELSE IF n = 0 THEN FALSE
  ELSE ClimbsOut(par, par[v], n - 1)

\* The parent assignments that make a forest in which Root has no parent.
HitParents ==
  {par \in [Views -> Views \cup {NoView}] :
     par[Root] = NoView /\ \A v \in Views : ClimbsOut(par, v, NumViews)}

RECURSIVE Ascending(_)
\* The views of S as a list, lowest first.
Ascending(S) ==
  IF S = {} THEN <<>>
  ELSE LET m == CHOOSE a \in S : \A b \in S : a <= b
       IN  <<m>> \o Ascending(S \ {m})

Reverse(s) == [i \in 1..Len(s) |-> s[Len(s) + 1 - i]]

\* The frames a subview of the window may have.
HitFrames == {Rect(0, 0, 2, 2), Rect(1, 1, 2, 2)}

\* A window over any tree of views, each hidden or not and touch-enabled or
\* not; the root fills the window and may have scrolled its bounds.
InitHit ==
  /\ \E par \in HitParents, rev \in BOOLEAN :
       /\ superview = par
       /\ subviews = [p \in Views |->
                        LET l == Ascending({c \in Views : par[c] = p})
                        IN  IF rev THEN Reverse(l) ELSE l]
  /\ \E ob \in {0, 1}, fr \in [Views \ {Root} -> HitFrames] :
       /\ frame = [v \in Views |->
                     IF v = Root THEN Rect(0, 0, MaxX + 1, MaxX + 1) ELSE fr[v]]
       /\ bounds = [v \in Views |->
                      IF v = Root THEN Rect(ob, ob, MaxX + 1, MaxX + 1)
                      ELSE Rect(0, 0, fr[v].w, fr[v].h)]
  /\ hidden \in [Views -> BOOLEAN]
  /\ touch_enabled \in [Views -> BOOLEAN]
  /\ multitouch_enabled = [v \in Views |-> FALSE]
  /\ runtime = "base"
  /\ tracked = [i \in TouchIds |-> NoView]
  /\ last_pos = [i \in TouchIds |-> NoPos]
  /\ delivered = <<>>
  /\ raised = "none"
  /\ lastOp = <<"init", 0, 0>>
  /\ root_to_runtime = {Root}
  /\ first_responder = [v \in Views |-> NoView]
  /\ hookLog = <<>>
  /\ result = NoView
  /\ InitAttrDefaults
  /\ InitNoAnim
  /\ InitNoBackend
  /\ InitNoModal
  /\ InitNoPump
  /\ InitNoColor
  /\ InitNoCalls
  /\ InitNoSwitch
  /\ InitNoThread
  /\ InitNoHooks
  /\ InitNoDraw

\* find_view_at(self.root, x, y), as the touch handlers call it.
find_view_at(x, y) ==
  /\ result' = FindViewAt(Root, x, y)
  /\ lastOp' = <<"find_view_at", x, y>>
  /\ UNCHANGED <<treeVars, geomVars, flagVars, touchVars, raised,
                 root_to_runtime, first_responder, hookLog, attrVars,
                 animVars, backendVars, delayVars, modalVars, pumpVars, colorVars, switchVars, threadVars, hookVars, drawVars>>

\* The points of the window.
HitPoints == (0..MaxX) \X (0..MaxX)

FindViewAtStep == \E p \in HitPoints : find_view_at(p[1], p[2])

NextHit == FindViewAtStep

SpecHit == InitHit /\ [][NextHit]_vars

\* C13: for every tree and every point, the hit-test never returns a hidden
\* view nor a view that has a hidden ancestor; in particular a hidden view
\* with a touch-enabled subview yields no match from that subtree.
C13_HitTestSkipsHiddenSubtrees ==
  lastOp[1] = "find_view_at" /\ result # NoView =>
    \A a \in Views : IsAncestorOrSelf(a, result) => ~hidden[a]

\* The hit-test ran at a point inside a hidden child of the root and inside
\* that child's visible touch-enabled subview, and returned the root.
C13_Witness ==
  /\ lastOp[1] = "find_view_at"
  /\ superview[2] = Root /\ superview[3] = 2
  /\ hidden[2] /\ ~hidden[3] /\ ~hidden[Root]
  /\ touch_enabled[3] /\ touch_enabled[Root]
  /\ Inside(2, lastOp[2], lastOp[3]) /\ Inside(3, lastOp[2], lastOp[3])
  /\ result = Root

\* Whether view v is in the window's tree, touch-enabled, and it and all its
\* ancestors are visible and contain the screen point (x, y).
Qualifies(v, x, y) ==
  /\ IsAncestorOrSelf(Root, v)
  /\ touch_enabled[v]
  /\ \A a \in Views :
       IsAncestorOrSelf(a, v) =>
         /\ ~hidden[a]
         /\ ScreenOrigin(a)[1] <= x /\ x < ScreenOrigin(a)[1] + frame[a].w
         /\ ScreenOrigin(a)[2] <= y /\ y < ScreenOrigin(a)[2] + frame[a].h

RECURSIVE PaintOrder(_)
RECURSIVE PaintOrderOfList(_, _)
\* The views of the subtree of v in the order they are painted: a view before
\* its subviews, the subviews in child-list order.
PaintOrder(v) == <<v>> \o PaintOrderOfList(subviews[v], 1)

PaintOrderOfList(l, i) ==
  IF i > Len(l) THEN <<>> ELSE PaintOrder(l[i]) \o PaintOrderOfList(l, i + 1)

\* C14: for every tree and point, the hit-test returns the topmost
\* touch-enabled view containing the point: of the views that qualify the one
\* painted last (a descendant over its ancestor, a later sibling subtree over
\* an earlier one); a touch-disabled view is never returned and blocks
\* nothing; the result is None only if no view qualifies.
C14_HitTestReturnsTopmost ==
  lastOp[1] = "find_view_at" =>
    LET x == lastOp[2]
        y == lastOp[3]
        order == PaintOrder(Root)
        hits == {i \in 1..Len(order) : Qualifies(order[i], x, y)}
    IN  IF hits = {} THEN result = NoView
        ELSE result = order[CHOOSE i \in hits : \A j \in hits : j <= i]

\* The hit-test chose the later of two overlapping touch-enabled siblings,
\* passing over nothing but the root beneath them.
C14_Witness ==
  /\ lastOp[1] = "find_view_at"
  /\ subviews[Root] = <<3, 2>>
  /\ Qualifies(2, lastOp[2], lastOp[3])
  /\ Qualifies(3, lastOp[2], lastOp[3])
  /\ Qualifies(Root, lastOp[2], lastOp[3])
  /\ result = 2

\* C15: after any sequence of add_subview / remove_subview calls, for all
\* argument choices (a view itself or one of its ancestors as the child
\* included), following superview references from any view reaches a view
\* with no superview in finitely many steps: no view is its own ancestor.
C15_NoViewIsItsOwnAncestor ==
  \A v \in Views : ClimbsOut(superview, v, NumViews)

\* What C16 promises of the tree after p.add_subview(v).
AddedOnTop(sub, sup, p, v) ==
  /\ Len(sub[p]) > 0 /\ sub[p][Len(sub[p])] = v
  /\ sup[v] = p
  /\ \A q \in Views \ {p} : ~Contains(sub[q], v)

\* C16: after p.add_subview(v) returns, v is the last element of p's child
\* list, v's superview is p, and v is in no other view's child list, whatever
\* v's position was before the call (detached, child of another view, or
\* already a child of p).
C16_AddSubviewPutsOnTop ==
  [][lastOp'[1] = "add_subview" /\ raised' = "none" =>
       AddedOnTop(subviews', superview', lastOp'[2], lastOp'[3])]_vars

\* The promise of C16 for a view that was not already a child of p.
C16_HoldsUnlessAlreadyChild ==
  [][/\ lastOp'[1] = "add_subview"
     /\ raised' = "none"
     /\ superview[lastOp'[3]] # lastOp'[2]
     => AddedOnTop(subviews', superview', lastOp'[2], lastOp'[3])]_vars

\* C17: p.remove_subview(v) when v is not a direct child of p fails with an
\* error at the call site and leaves every view's child list and superview
\* reference unchanged.
C17_RemoveNonChildFails ==
  [][lastOp'[1] = "remove_subview" /\ ~Contains(subviews[lastOp'[2]], lastOp'[3])
     => /\ raised' = "ValueError"
        /\ subviews' = subviews
        /\ superview' = superview]_vars

\* remove_subview was called on a view that is a child of another view, and
\* failed.
C17_Witness ==
  /\ lastOp[1] = "remove_subview"
  /\ raised = "ValueError"
  /\ superview[lastOp[3]] \notin {NoView, lastOp[2]}
  /\ Contains(subviews[superview[lastOp[3]]], lastOp[3])

\* Whether view v is hidden or below a hidden view.
InHiddenSubtree(v) == \E a \in Views : IsAncestorOrSelf(a, v) /\ hidden[a]

RECURSIVE VisibleOf(_, _)
\* The views of list l, from position i on, that are in no hidden subtree.
VisibleOf(l, i) ==
  IF i > Len(l) THEN <<>>
  ELSE (IF InHiddenSubtree(l[i]) THEN <<>> ELSE <<l[i]>>) \o VisibleOf(l, i + 1)

\* C18: in a render pass the paint hook of a hidden view and of every
\* descendant of a hidden view is never called; for visible views the
\* parent's paint hook runs before any of its children's, and siblings are
\* painted in child-list order: the hooks called so far are the first of the
\* visible views in paint order, and all of them once the pass has returned.
C18_PaintOrderSkipsHidden ==
  (rendering \/ lastOp[1] \in {"render", "render_frame_end"}) =>
    LET due == VisibleOf(PaintOrder(Root), 1)
    IN  /\ Len(painted) <= Len(due)
        /\ painted = SubSeq(due, 1, Len(painted))
        /\ lastOp[1] = "render_frame_end" => painted = due

\* A pass over the chain 1 > 2 > 3 with view 2 hidden has returned: only the
\* root was painted.
C18_Witness ==
  /\ lastOp[1] = "render_frame_end"
  /\ superview[3] = 2 /\ superview[2] = Root
  /\ hidden[2] /\ ~hidden[3]
  /\ painted = <<Root>>

\* A pass over the root and its two subviews has painted them in child-list
\* order.
C18_SiblingsCase ==
  /\ lastOp[1] = "render_frame_end"
  /\ subviews[Root] = <<2, 3>>
  /\ painted = <<Root, 2, 3>>

\* ------------------------------------------- the matrix the backend holds

\* What _sync_ctm_to_rust leaves in the backends, c being the context after
\* the call: backend.set_ctm reaches the active backend only.
Handed(rc, c) ==
  IF c.backend = "None" THEN rc ELSE [rc EXCEPT ![c.backend] = c.backend_ctm]

\* A block a "with" statement opened: the GState or ImageContext object.
GStateBlock ==
  [kind |-> "GState", fb |-> "None", prev_backend |-> "None",
   prev_origin |-> <<0, 0>>]

ImageContextBlock(c, fb) ==
  [kind |-> "ImageContext", fb |-> fb, prev_backend |-> c.backend,
   prev_origin |-> c.origin]

\* How many of the open blocks are image contexts.
OpenImages == Cardinality({i \in 1..Len(blocks) : blocks[i].kind = "ImageContext"})

\* set_backend(backend), as render_fn and application code call it.
SetBackend(backend) ==
  /\ ctx' = set_backend(ctx, backend)
  /\ rust_ctm' = Handed(rust_ctm, ctx')
  /\ lastOp' = <<"set_backend", 0, 0>>
  /\ UNCHANGED blocks

\* _set_origin(x, y)
SetOrigin(x, y) ==
  /\ ctx' = set_origin(ctx, x, y)
  /\ rust_ctm' = Handed(rust_ctm, ctx')
  /\ lastOp' = <<"_set_origin", 0, 0>>
  /\ UNCHANGED blocks

\* concat_ctm(transform)
ConcatCtm(t) ==
  /\ ctx.ctm.ty < MaxShift
  /\ ctx' = concat_ctm(ctx, t)
  /\ rust_ctm' = Handed(rust_ctm, ctx')
  /\ lastOp' = <<"concat_ctm", 0, 0>>
  /\ UNCHANGED blocks

\* GState.__enter__
GStateEnter ==
  /\ Len(blocks) < MaxBlocks
  /\ ctx' = save_gstate(ctx)
  /\ blocks' = Append(blocks, GStateBlock)
  /\ lastOp' = <<"GState.__enter__", 0, 0>>
  /\ UNCHANGED rust_ctm

\* GState.__exit__ of the innermost block.
GStateExit ==
  /\ blocks # <<>>
  /\ blocks[Len(blocks)].kind = "GState"
  /\ ctx' = restore_gstate(ctx)
  /\ rust_ctm' = Handed(rust_ctm, ctx')
  /\ blocks' = SubSeq(blocks, 1, Len(blocks) - 1)
  /\ lastOp' = <<"GState.__exit__", 0, 0>>

\* ImageContext.__enter__; imported says whether FrameBuffer could be
\* imported and created.  A new FrameBuffer starts with the identity.
ImageContextEnter(imported) ==
  /\ Len(blocks) < MaxBlocks
  /\ \E fb \in {ImageBuffers[OpenImages + 1]} :
       /\ ctx' = sync_ctm_to_rust(
                   [ctx EXCEPT !.backend = IF imported THEN fb ELSE @,
                               !.origin = <<0, 0>>])
       /\ rust_ctm' = Handed(IF imported
                             THEN [rust_ctm EXCEPT ![fb] = IDENTITY_TRANSFORM]
                             ELSE rust_ctm, ctx')
       /\ blocks' = Append(blocks, ImageContextBlock(
                                      ctx, IF imported THEN fb ELSE "None"))
  /\ lastOp' = <<"ImageContext.__enter__", 0, 0>>

\* ImageContext.__exit__ of the innermost block: the backend and the origin
\* are put back and the FrameBuffer, if one was made, is destroyed.
ImageContextExit ==
  /\ blocks # <<>>
  /\ \E self \in {blocks[Len(blocks)]} :
       /\ self.kind = "ImageContext"
       /\ ctx' = [ctx EXCEPT !.backend = self.prev_backend,
                             !.origin = self.prev_origin]
       /\ rust_ctm' = IF self.fb = "None" THEN rust_ctm
                      ELSE [rust_ctm EXCEPT ![self.fb] = IDENTITY_TRANSFORM]
  /\ blocks' = SubSeq(blocks, 1, Len(blocks) - 1)
  /\ lastOp' = <<"ImageContext.__exit__", 0, 0>>

\* What the drawing functions leave alone.
otherThanCtx ==
  <<treeVars, geomVars, flagVars, touchVars, focusVars, attrVars, animVars,
    delayVars, modalVars, pumpVars, colorVars, switchVars, threadVars, hookVars, raised, border_width, content_mode, content_draw, rendering,
    pending, scopes, scopeLog, passEntry, painted>>

\* The translations paint code concatenates, and the origins it sets.
Shifts == {translation(0, 1)}

Origins == {<<0, 0>>, <<MaxShift, 0>>}

SetBackendStep ==
  \E b \in {"None", "fb"} : SetBackend(b) /\ UNCHANGED otherThanCtx

SetOriginStep ==
  \E o \in Origins : SetOrigin(o[1], o[2]) /\ UNCHANGED otherThanCtx

ConcatCtmStep == \E t \in Shifts : ConcatCtm(t) /\ UNCHANGED otherThanCtx

GStateBlockEnterStep == GStateEnter /\ UNCHANGED otherThanCtx

GStateBlockExitStep == GStateExit /\ UNCHANGED otherThanCtx

ImageContextEnterStep ==
  \E imported \in BOOLEAN : ImageContextEnter(imported) /\ UNCHANGED otherThanCtx

ImageContextExitStep == ImageContextExit /\ UNCHANGED otherThanCtx

NextCtm ==
  \/ SetBackendStep
  \/ SetOriginStep
  \/ ConcatCtmStep
  \/ GStateBlockEnterStep
  \/ GStateBlockExitStep
  \/ ImageContextEnterStep
  \/ ImageContextExitStep

SpecCtm == InitFresh /\ [][NextCtm]_vars

\* translate(origin) o CTM of the context.
OriginThenCtm(c) ==
  Transform(c.ctm.a, c.ctm.b, c.ctm.c, c.ctm.d,
            FAdd(c.ctm.tx, c.origin[1]), FAdd(c.ctm.ty, c.origin[2]))

\* The operations that change the backend, the origin or the CTM.
CtmOps ==
  {"set_backend", "_set_origin", "concat_ctm", "GState.__exit__",
   "ImageContext.__enter__", "ImageContext.__exit__"}

\* C19: whenever a backend is active, after set_backend, _set_origin,
\* concat_ctm, GState exit, ImageContext enter and ImageContext exit the
\* matrix last sent to the active backend is translate(origin) o CTM of the
\* context's current origin and CTM.
C19_BackendHoldsOriginThenCtm ==
  (lastOp[1] \in CtmOps /\ ctx.backend # "None")
    => rust_ctm[ctx.backend] = OriginThenCtm(ctx)

\* The same for every operation of the list but ImageContext exit.
C19_HoldsUnlessImageContextExit ==
  (lastOp[1] \in CtmOps \ {"ImageContext.__exit__"} /\ ctx.backend # "None")
    => rust_ctm[ctx.backend] = OriginThenCtm(ctx)

\* An image context was left with a backend active again.
C19_ImageContextLeft ==
  /\ lastOp[1] = "ImageContext.__exit__"
  /\ ctx.backend = "fb"
  /\ rust_ctm["fb"] = OriginThenCtm(ctx)

\* ------------------------------------------------------ delayed callbacks

\* What a delayed callback does when it runs: nothing, cancel_delays(), or
\* delay(f, 0) of a callback f that does nothing.
Funcs == {"pass", "cancel_delays", "delay"}

\* An entry of the log: a delay() call queuing callback id, a
\* cancel_delays() call, or the call of callback id; by is the callback
\* that was running (0: application code) and at the time.
Event(ev, id, by, at) == [ev |-> ev, id |-> id, by |-> by, at |-> at]

\* delay(func, seconds) at time now, called by callback by; q holds the
\* pending list, the number of delay() calls and the log.
DelayIn(q, func, seconds, by, now) ==
  [pending |-> Append(q.pending, [t |-> now + seconds, func |-> func,
                                   id |-> q.count + 1]),
   count |-> q.count + 1,
   log |-> Append(q.log, Event("delay", q.count + 1, by, now))]

\* cancel_delays() at time now, called by callback by.
CancelDelaysIn(q, by, now) ==
  [q EXCEPT !.pending = <<>>,
            !.log = Append(@, Event("cancel_delays", 0, by, now))]

\* func() of the queued entry e.
CallIn(q, e, now) ==
  Bind([q EXCEPT !.log = Append(@, Event("call", e.id, 0, now))],
       LAMBDA called :
         CASE e.func = "pass" -> called
           [] e.func = "cancel_delays" -> CancelDelaysIn(called, e.id, now)
           [] e.func = "delay" -> DelayIn(called, "pass", 0, e.id, now))

RECURSIVE CallReady(_, _, _, _)
\* _tick_delays: "for _, func in ready: func()" from entry i on.
CallReady(q, ready, i, now) ==
  IF i > Len(ready) THEN q
  ELSE Bind(CallIn(q, ready[i], now),
            LAMBDA next : CallReady(next, ready, i + 1, now))

\* The entries of the pending list that are due at time now.
Due(now) == SelectSeq(pending_delays, LAMBDA e : now >= e.t)

\* A tick that leaves the called entries on the pending list.
NotDueKeepsAll(now) == pending_delays

NotDue(now) == SelectSeq(pending_delays, LAMBDA e : now < e.t)

\* The three values the functions above work on.
DelayQueue == [pending |-> pending_delays, count |-> delayCount, log |-> delayLog]

\* How often the log holds event ev made by application code.
AppCalls(ev) ==
  Cardinality({i \in 1..Len(delayLog) :
                 delayLog[i].ev = ev /\ delayLog[i].by = 0})

\* What the delay functions leave alone.
otherThanDelay ==
  <<treeVars, geomVars, flagVars, touchVars, focusVars, attrVars, raised,
    recording, records, active, callStack, remaining, fired, batch, nextCall,
    tickLog, writes, backendVars, modalVars, pumpVars, colorVars, switchVars, threadVars, hookVars, drawVars>>

\* Application code: delay(func, seconds).
Delay(func, seconds) ==
  /\ AppCalls("delay") < MaxDelays
  /\ \E q \in {DelayIn(DelayQueue, func, seconds, 0, clock)} :
       /\ pending_delays' = q.pending
       /\ delayCount' = q.count
       /\ delayLog' = q.log
  /\ lastOp' = <<"delay", 0, 0>>
  /\ UNCHANGED <<clock, otherThanDelay>>

\* Application code: cancel_delays().
CancelDelays ==
  /\ AppCalls("cancel_delays") < MaxDelays
  /\ \E q \in {CancelDelaysIn(DelayQueue, 0, clock)} :
       /\ pending_delays' = q.pending
       /\ delayCount' = q.count
       /\ delayLog' = q.log
  /\ lastOp' = <<"cancel_delays", 0, 0>>
  /\ UNCHANGED <<clock, otherThanDelay>>

\* The window loop: _tick_delays(now), time.time() having reached now.
TickDelays(now) ==
  /\ clock' = now
  /\ \E q \in {CallReady([DelayQueue EXCEPT !.pending = NotDue(now)],
                         Due(now), 1, now)} :
       /\ pending_delays' = q.pending
       /\ delayCount' = q.count
       /\ delayLog' = q.log
  /\ lastOp' = <<"_tick_delays", 0, 0>>
  /\ UNCHANGED otherThanDelay

DelayStep == \E func \in Funcs, seconds \in 0..1 : Delay(func, seconds)

CancelDelaysStep == CancelDelays

TickDelaysStep == \E now \in clock..MaxTime : TickDelays(now)

NextDelay ==
  \/ DelayStep
  \/ CancelDelaysStep
  \/ TickDelaysStep

SpecDelay == InitFresh /\ [][NextDelay]_vars

\* Callback id is called at position k of the log although cancel_delays
\* was called, by one of the callers in Callers, after it was queued.
CalledAfterCancel(k, Callers) ==
  /\ delayLog[k].ev = "call"
  /\ \E i \in 1..(k - 1), j \in 1..(k - 1) :
       /\ i < j
       /\ delayLog[i].ev = "delay"
       /\ delayLog[i].id = delayLog[k].id
       /\ delayLog[j].ev = "cancel_delays"
       /\ delayLog[j].by \in Callers

\* C20: after cancel_delays() is called, no callback that delay() queued
\* before that call is ever invoked, also when cancel_delays is called from
\* inside a delayed callback while other callbacks are due in the same tick.
C20_CancelledNeverCalled ==
  \A k \in 1..Len(delayLog) : ~CalledAfterCancel(k, 0..delayCount)

\* The same for the cancel_delays() calls application code makes between
\* two ticks.
C20_HoldsForCancelBetweenTicks ==
  \A k \in 1..Len(delayLog) : ~CalledAfterCancel(k, {0})

\* Application code cancelled a queued callback, and a later tick at which
\* it would have been due called another one.
C20_CancelBetweenTicksCase ==
  \E i, j, k \in 1..Len(delayLog) :
    /\ i < j /\ j < k
    /\ delayLog[i].ev = "delay"
    /\ delayLog[j] = Event("cancel_delays", 0, 0, delayLog[j].at)
    /\ delayLog[k].ev = "call"
    /\ delayLog[k].at >= delayLog[i].at + 1

\* How often the log holds the call of callback id.
CallsOf(log, id) ==
  Cardinality({i \in 1..Len(log) : log[i].ev = "call" /\ log[i].id = id})

\* The callbacks a pending list holds.
PendingIds(p) == {p[i].id : i \in 1..Len(p)}

\* C21: a tick at time now calls every pending callback whose time
\* (queue time + seconds) is <= now exactly once, having taken it off the
\* pending list, and calls no other: not the callbacks whose time is still
\* ahead, not the ones queued by the callbacks it calls, and none a second
\* time.
C21_CalledOnceWhenDue ==
  [][lastOp'[1] = "_tick_delays" =>
       /\ \A i \in 1..Len(pending_delays) :
            IF clock' >= pending_delays[i].t
            THEN /\ CallsOf(delayLog, pending_delays[i].id) = 0
                 /\ CallsOf(delayLog', pending_delays[i].id) = 1
                 /\ pending_delays[i].id \notin PendingIds(pending_delays')
            ELSE CallsOf(delayLog', pending_delays[i].id) = 0
       /\ \A id \in (delayCount + 1)..delayCount' : CallsOf(delayLog', id) = 0
       /\ \A id \in (1..delayCount) \ PendingIds(pending_delays) :
            CallsOf(delayLog', id) = CallsOf(delayLog, id)
       /\ \A id \in 1..delayCount' : CallsOf(delayLog', id) <= 1]_vars

\* A callback queued with one second of delay was called by a tick one
\* second later and not by the tick before; it queued a callback due at
\* once, which is still pending after the tick.
C21_Witness ==
  /\ lastOp[1] = "_tick_delays"
  /\ \E i, j, k, n \in 1..Len(delayLog) :
       /\ i < j /\ j < k /\ k < n
       /\ delayLog[i] = Event("delay", delayLog[i].id, 0, 0)
       /\ delayLog[j].ev = "call" /\ delayLog[j].at = 0
       /\ delayLog[j].id # delayLog[i].id
       /\ delayLog[k] = Event("call", delayLog[i].id, 0, 1)
       /\ delayLog[n] = Event("delay", delayLog[n].id, delayLog[i].id, 1)
       /\ delayLog[n].id \in PendingIds(pending_delays)
       /\ CallsOf(delayLog, delayLog[n].id) = 0

\* ------------------------------------------------- present, close, wait

\* The positions of a thread inside View.close, after "if not self._presented".
InClose == {"close_hook", "close_flags", "close_set"}

\* Where a thread goes on when its close() call returns.
AfterClose(t) == IF t = "loop" /\ inLoop THEN "running" ELSE "idle"

\* What present, close and wait_modal leave alone.
otherThanModal ==
  <<treeVars, geomVars, flagVars, touchVars, focusVars, attrVars, animVars,
    backendVars, delayVars, pumpVars, colorVars, switchVars, threadVars, hookVars, drawVars>>

\* View.present up to launch_runtime, and the runtime's run() entering its
\* loop, on the thread that called present().
Present ==
  /\ pc["loop"] = "idle"
  /\ presents < MaxPresents
  /\ presents' = presents + 1
  /\ IF presented
     THEN /\ raised' = "RuntimeError"
          /\ UNCHANGED <<presented, on_screen, close_event, pc, inLoop, hooks,
                         sets>>
     ELSE /\ raised' = "none"
          /\ presented' = TRUE
          /\ on_screen' = TRUE
          /\ close_event' = FALSE
          /\ hooks' = 0
          /\ sets' = 0
          /\ inLoop' = TRUE
          /\ pc' = [pc EXCEPT !["loop"] = "running"]
  /\ overlapped' = (overlapped \/
                     \E u \in Threads : pc[u] \in InClose \cup {"close_check"})
  /\ lastOp' = <<"present", "loop", IF presented THEN "raised" ELSE "running">>
  /\ UNCHANGED otherThanModal

\* A thread calls view.close(): application code on another thread, or a
\* hook the window loop runs.
CloseCall(t) ==
  /\ pc[t] = IF t = "loop" THEN "running" ELSE "idle"
  /\ pc' = [pc EXCEPT ![t] = "close_check"]
  /\ lastOp' = <<"close", t, "called">>
  /\ UNCHANGED <<presented, on_screen, close_event, inLoop, presents, hooks,
                 sets, overlapped, raised, otherThanModal>>

\* SDLRuntime.run: the loop ends when running is false (quit) or the root is
\* no longer presented; then _cleanup() and self.root.close().
LoopExit(quit) ==
  /\ pc["loop"] = "running"
  /\ quit \/ ~presented
  /\ inLoop' = FALSE
  /\ pc' = [pc EXCEPT !["loop"] = "close_check"]
  /\ lastOp' = <<"run", "loop", "left the loop">>
  /\ UNCHANGED <<presented, on_screen, close_event, presents, hooks, sets,
                 overlapped, raised, otherThanModal>>

\* View.close: "if not self._presented: return"
CloseCheck(t) ==
  /\ pc[t] = "close_check"
  /\ IF presented
     THEN /\ pc' = [pc EXCEPT ![t] = "close_hook"]
          /\ overlapped' = (overlapped \/ \E u \in Threads \ {t} : pc[u] \in InClose)
     ELSE /\ pc' = [pc EXCEPT ![t] = AfterClose(t)]
          /\ UNCHANGED overlapped
  /\ lastOp' = <<"close", t, IF presented THEN "closing" ELSE "nothing">>
  /\ UNCHANGED <<presented, on_screen, close_event, inLoop, presents, hooks,
                 sets, raised, otherThanModal>>

\* View.close: self.will_close()
CloseHook(t) ==
  /\ pc[t] = "close_hook"
  /\ hooks' = hooks + 1
  /\ pc' = [pc EXCEPT ![t] = "close_flags"]
  /\ lastOp' = <<"close", t, "will_close">>
  /\ UNCHANGED <<presented, on_screen, close_event, inLoop, presents, sets,
                 overlapped, raised, otherThanModal>>

\* View.close: self._on_screen = False; self._presented = False
CloseFlags(t) ==
  /\ pc[t] = "close_flags"
  /\ on_screen' = FALSE
  /\ presented' = FALSE
  /\ pc' = [pc EXCEPT ![t] = "close_set"]
  /\ lastOp' = <<"close", t, "flags">>
  /\ UNCHANGED <<close_event, inLoop, presents, hooks, sets, overlapped,
                 raised, otherThanModal>>

\* View.close: self._close_event.set(), which wakes every waiting thread.
CloseSet(t) ==
  /\ pc[t] = "close_set"
  /\ close_event' = TRUE
  /\ sets' = sets + 1
  /\ pc' = [u \in Threads |->
              IF u = t THEN AfterClose(t)
              ELSE IF pc[u] = "waiting" THEN "idle" ELSE pc[u]]
  /\ lastOp' = <<"close", t, "set">>
  /\ UNCHANGED <<presented, on_screen, inLoop, presents, hooks, overlapped,
                 raised, otherThanModal>>

\* A thread that blocks wakes up in this position.
WaitResult(onScreen, event) ==
  IF ~onScreen \/ event THEN "idle" ELSE "waiting"

\* A wait_modal that never looks at _on_screen.
WaitResultUnchecked(onScreen, event) == IF event THEN "idle" ELSE "waiting"

\* View.wait_modal on another thread: return if the view is not on screen,
\* else wait for the close event.
WaitModal(t) ==
  /\ t # "loop"
  /\ pc[t] = "idle"
  /\ pc' = [pc EXCEPT ![t] = WaitResult(on_screen, close_event)]
  /\ lastOp' = <<"wait_modal", t, IF pc'[t] = "idle" THEN "returned"
                                  ELSE "blocked">>
  /\ UNCHANGED <<presented, on_screen, close_event, inLoop, presents, hooks,
                 sets, overlapped, raised, otherThanModal>>

CloseStep ==
  \E t \in Threads :
    \/ CloseCall(t)
    \/ CloseCheck(t)
    \/ CloseHook(t)
    \/ CloseFlags(t)
    \/ CloseSet(t)

LoopExitStep == \E quit \in BOOLEAN : LoopExit(quit)

WaitModalStep == \E t \in Threads : WaitModal(t)

NextModal ==
  \/ Present
  \/ CloseStep
  \/ LoopExitStep
  \/ WaitModalStep

SpecModal == InitFresh /\ [][NextModal]_vars

\* No thread is inside close(), and the runtime has left run().
PresentationOver ==
  /\ presents > 0
  /\ ~presented
  /\ \A t \in Threads : pc[t] \notin InClose \cup {"close_check", "running"}

\* Of one presentation: will_close ran at most once and the close event was
\* set at most once, the event being set only after the hook; both happened
\* once the presentation is over; and no thread is left waiting once the
\* event is set.
ClosedOnce ==
  /\ hooks <= 1
  /\ sets <= hooks
  /\ PresentationOver => (hooks = 1 /\ sets = 1)
  /\ close_event => \A t \in Threads : pc[t] # "waiting"

\* C22: for each presentation of a view, will_close runs exactly once and
\* the close event is set exactly once, whether close() is called by user
\* code, by the runtime at loop exit, or both; every caller blocked in
\* wait_modal is released after that, wait_modal on a view that is not on
\* screen returns immediately, and close() on a view that is not presented
\* does nothing.
C22_ClosedOncePerPresentation ==
  /\ ClosedOnce
  /\ (lastOp[1] = "wait_modal" /\ ~on_screen) => lastOp[3] = "returned"
  /\ (lastOp[1] = "close" /\ lastOp[3] = "nothing") => ~presented

\* The same as long as no close() call ran at the same time as another
\* close() call or as present().
C22_HoldsWhenCloseCallsDoNotOverlap == overlapped \/ C22_ClosedOncePerPresentation

\* User code closed the view on another thread, the runtime's close() at
\* loop exit then did nothing, and no two close() calls overlapped.
C22_BothCallersCase ==
  /\ ~overlapped
  /\ lastOp = <<"close", "loop", "nothing">>
  /\ ~inLoop
  /\ hooks = 1
  /\ sets = 1

\* --------------------------------------------------------- the event pump

\* The events SDL_PollEvent returns: a quit, or a window or mouse event
\* carrying a window id (one id more than there are windows: a window that
\* is not ours).
EventKinds == {"quit", "window_close", "mousedown"}

Message(kind, wid) == [kind |-> kind, wid |-> IF kind = "quit" THEN 0 ELSE wid]

\* A pump that hands a window's event to every registered runtime.
RouteToAll(wm, msg) == Ascending({w \in Windows : wm[w]})

\* _route_event and _send: the runtimes a message is put to, looked up in
\* _window_map under the lock.
Route(wm, msg) ==
  IF msg.kind = "quit" THEN Ascending({w \in Windows : wm[w]})
  ELSE IF msg.wid \in Windows /\ wm[msg.wid] THEN <<msg.wid>> ELSE <<>>

\* What the pump and the window loops leave alone.
otherThanPump ==
  <<treeVars, geomVars, flagVars, touchVars, focusVars, attrVars, animVars,
    backendVars, delayVars, modalVars, colorVars, switchVars, threadVars, hookVars, drawVars, raised>>

\* SDLRuntime.__init__ and the start of run(): the window is created, the
\* runtime registered under its window id, running set.
Open(w) ==
  /\ loopPc[w] = "new"
  /\ window_map' = [window_map EXCEPT ![w] = TRUE]
  /\ running' = [running EXCEPT ![w] = TRUE]
  /\ loopPc' = [loopPc EXCEPT ![w] = "top"]
  /\ lastOp' = <<"open", w, "none">>
  /\ UNCHANGED <<event_queue, routing, handled, polled, otherThanPump>>

\* The pump thread: SDL_PollEvent returned an event; _route_event looks up
\* where it goes.
PumpPoll(kind, wid) ==
  /\ routing = NoRouting
  /\ polled < MaxEvents
  /\ \E w \in Windows : window_map[w]
  /\ polled' = polled + 1
  /\ \E msg \in {Message(kind, wid)} :
       \E targets \in {Route(window_map, msg)} :
         routing' = IF targets = <<>> THEN NoRouting
                    ELSE [msg |-> msg, targets |-> targets]
  /\ lastOp' = <<"poll", wid, kind>>
  /\ UNCHANGED <<window_map, event_queue, loopPc, running, handled,
                 otherThanPump>>

\* The pump thread: rt._event_queue.put(msg) for the next runtime.
PumpPut ==
  /\ routing.targets # <<>>
  /\ event_queue' = [event_queue EXCEPT ![Head(routing.targets)] =
                       Append(@, routing.msg)]
  /\ routing' = IF Tail(routing.targets) = <<>> THEN NoRouting
                ELSE [routing EXCEPT !.targets = Tail(@)]
  /\ lastOp' = <<"put", Head(routing.targets), routing.msg.kind>>
  /\ UNCHANGED <<window_map, loopPc, running, handled, polled, otherThanPump>>

\* SDLRuntime.run: "while self.running ..."; after the loop _cleanup()
\* unregisters the runtime.
LoopTop(w) ==
  /\ loopPc[w] = "top"
  /\ IF running[w]
     THEN /\ loopPc' = [loopPc EXCEPT ![w] = "dispatch"]
          /\ UNCHANGED window_map
     ELSE /\ loopPc' = [loopPc EXCEPT ![w] = "closed"]
          /\ window_map' = [window_map EXCEPT ![w] = FALSE]
  /\ lastOp' = <<"top", w, "none">>
  /\ UNCHANGED <<event_queue, routing, running, handled, polled,
                 otherThanPump>>

\* _dispatch_queued_events: one get_nowait(); an empty queue ends the drain,
\* a quit or window_close clears running, a mouse event runs the touch hooks.
LoopGet(w) ==
  /\ loopPc[w] = "dispatch"
  /\ IF event_queue[w] = <<>>
     THEN /\ loopPc' = [loopPc EXCEPT ![w] = "render"]
          /\ lastOp' = <<"drained", w, "none">>
          /\ UNCHANGED <<event_queue, running, handled>>
     ELSE /\ event_queue' = [event_queue EXCEPT ![w] = Tail(@)]
          /\ handled' = [handled EXCEPT ![w] =
                           Append(@, [msg |-> Head(event_queue[w]), by |-> w])]
          /\ running' = [running EXCEPT ![w] =
                           @ /\ Head(event_queue[w]).kind = "mousedown"]
          /\ lastOp' = <<"dispatch", w, Head(event_queue[w]).kind>>
          /\ UNCHANGED loopPc
  /\ UNCHANGED <<window_map, routing, polled, otherThanPump>>

\* SDLRuntime.run: self.render_fn(fb) begins
RenderBegin(w) ==
  /\ loopPc[w] = "render"
  /\ loopPc' = [loopPc EXCEPT ![w] = "rendering"]
  /\ lastOp' = <<"render_begin", w, "none">>
  /\ UNCHANGED <<window_map, event_queue, routing, running, handled, polled,
                 otherThanPump>>

\* SDLRuntime.run: render_fn returned, the frame is shown.
RenderEnd(w) ==
  /\ loopPc[w] = "rendering"
  /\ loopPc' = [loopPc EXCEPT ![w] = "top"]
  /\ lastOp' = <<"render_end", w, "none">>
  /\ UNCHANGED <<window_map, event_queue, routing, running, handled, polled,
                 otherThanPump>>

OpenStep == \E w \in Windows : Open(w)

PumpPollStep ==
  \E kind \in EventKinds, wid \in 1..(MaxWindows + 1) : PumpPoll(kind, wid)

LoopStep ==
  \E w \in Windows : LoopTop(w) \/ LoopGet(w) \/ RenderBegin(w) \/ RenderEnd(w)

NextPump ==
  \/ OpenStep
  \/ PumpPollStep
  \/ PumpPut
  \/ LoopStep

SpecPump == InitFresh /\ [][NextPump]_vars

\* What a step may do to the queue and the dispatch state of window w.
OwnLoopOnly(w) ==
  /\ \A i \in 1..Len(event_queue'[w]) :
       event_queue'[w][i].kind = "quit" \/ event_queue'[w][i].wid = w
  /\ event_queue'[w] # event_queue[w] =>
       \/ /\ lastOp'[1] = "put"
          /\ lastOp'[2] = w
          /\ window_map[w] \/ loopPc[w] = "closed"
          /\ event_queue'[w] = Append(event_queue[w], routing.msg)
       \/ /\ lastOp'[1] = "dispatch"
          /\ lastOp'[2] = w
          /\ event_queue'[w] = Tail(event_queue[w])
  /\ handled'[w] # handled[w] =>
       /\ lastOp'[1] = "dispatch"
       /\ lastOp'[2] = w
       /\ loopPc[w] = "dispatch"
       /\ handled'[w] = Append(handled[w],
                               [msg |-> Head(event_queue[w]), by |-> w])
  /\ loopPc[w] \in {"render", "rendering"} =>
       (handled'[w] = handled[w] /\ running'[w] = running[w])

\* C23: the pump thread only classifies and enqueues: an event carrying
\* window id w is put only on the queue of the runtime registered under w
\* (dropped if none), a quit event is put on every registered runtime's
\* queue, and dispatch runs only in the owning runtime's loop, the sole
\* consumer of its queue, never during a render pass of the same window.
C23_PumpOnlyEnqueues ==
  [][/\ \A w \in Windows : OwnLoopOnly(w)
     /\ lastOp'[1] \in {"poll", "put"} =>
          /\ UNCHANGED <<window_map, loopPc, running, handled>>
     /\ lastOp'[1] = "poll" =>
          /\ UNCHANGED event_queue
          /\ {routing'.targets[i] : i \in 1..Len(routing'.targets)} =
               IF lastOp'[3] = "quit" THEN {w \in Windows : window_map[w]}
               ELSE {w \in Windows : w = lastOp'[2] /\ window_map[w]}
     /\ lastOp'[1] = "put" =>
          /\ lastOp'[2] = Head(routing.targets)
          /\ routing'.targets = Tail(routing.targets)]_vars

\* Two windows are open; a mouse event of window 2 was dispatched by window
\* 2 only, an event of a window that is not ours was dropped, and a quit
\* reached both.
C23_Witness ==
  /\ polled = 3
  /\ handled[1] = <<[msg |-> Message("quit", 0), by |-> 1]>>
  /\ handled[2] = <<[msg |-> Message("mousedown", 2), by |-> 2],
                    [msg |-> Message("quit", 0), by |-> 2]>>
  /\ event_queue = [w \in Windows |-> <<>>]

\* ------------------------------------------------ events of stale touches

\* The step is a Move, an Up or a Cancel of a touch id that is not tracked.
StaleTouchEvent(i) ==
  /\ lastOp'[1] \in {"touch_move", "touch_up", "touch_cancel"}
  /\ lastOp'[2] = i
  /\ tracked[i] = NoView

\* C24: a Move, Up or Cancel for a touch id that is not tracked is a no-op:
\* no touch hook is invoked, and the tracked map and the last-position map
\* are left unchanged.
C24_StaleTouchIsNoOp ==
  [][\A i \in TouchIds :
       StaleTouchEvent(i) =>
         /\ delivered' = <<>>
         /\ tracked' = tracked
         /\ last_pos' = last_pos]_vars

\* The part about the hooks and the tracked map.
C24_StaleTouchCallsNoHook ==
  [][\A i \in TouchIds :
       StaleTouchEvent(i) => (delivered' = <<>> /\ tracked' = tracked)]_vars

\* A Move of a touch id that is not tracked left its position in the
\* last-position map.
C24_StaleMoveCase ==
  /\ lastOp[1] = "touch_move"
  /\ tracked[lastOp[2]] = NoView
  /\ last_pos[lastOp[2]] # NoPos
  /\ delivered = <<>>

\* --------------------------------------------------------- cancelled touch

TouchOps == {"touch_down", "touch_move", "touch_up", "touch_cancel"}

\* C25: Cancel(id) for a tracked id delivers exactly one touch_ended with
\* phase "cancelled" whose location is the last position recorded for that
\* id, in the target's local coordinates, and removes id from the tracked
\* map and the last-position map; the position recorded for an id is the
\* point of its latest Down or Move (the point the hook of that event
\* reported) and no event of another id changes it.
C25_CancelReportsLastPosition ==
  [][\A i \in TouchIds :
       /\ (lastOp' = <<"touch_cancel", i, NoPos>> /\ tracked[i] # NoView) =>
            /\ last_pos[i] # NoPos
            /\ delivered' =
                 <<[hook |-> "touch_ended", view |-> tracked[i],
                    phase |-> "cancelled", touch_id |-> i,
                    location |-> ConvertPoint(last_pos[i], tracked[i]),
                    prev_location |-> ConvertPoint(last_pos[i], tracked[i])]>>
            /\ tracked'[i] = NoView
            /\ last_pos'[i] = NoPos
       /\ (/\ lastOp'[1] \in {"touch_down", "touch_move"}
           /\ lastOp'[2] = i
           /\ delivered' # <<>>) =>
            /\ last_pos'[i] # NoPos
            /\ delivered'[1].location =
                 ConvertPoint(last_pos'[i], delivered'[1].view)
       /\ last_pos'[i] # last_pos[i] =>
            (lastOp'[1] \in TouchOps /\ lastOp'[2] = i)]_vars

\* A touch that began on a view and moved was cancelled, and the view got
\* touch_ended("cancelled") at a place other than the window's origin.
C25_Witness ==
  /\ lastOp[1] = "touch_cancel"
  /\ Len(delivered) = 1
  /\ delivered[1].phase = "cancelled"
  /\ delivered[1].location # ConvertPoint(<<0, 0>>, delivered[1].view)
  /\ tracked[lastOp[2]] = NoView
  /\ last_pos[lastOp[2]] = NoPos

\* ------------------------------------------- focus request with no window

\* C26: become_first_responder on a view whose root view is not registered
\* with a live runtime returns False, invokes no acquire or resign hook, and
\* changes no window's first responder; also after the runtime that owned
\* the root has unregistered.
C26_NoWindowNoFocus ==
  [][\A v \in Views :
       (/\ lastOp' = <<"become_first_responder", v, v>>
        /\ RootOf(v) \notin root_to_runtime) =>
         /\ result' = "False"
         /\ hookLog' = <<>>
         /\ first_responder' = first_responder]_vars

\* A view asked for focus and was refused; the window of its root had a
\* first responder before its runtime unregistered, and a view further down
\* the same tree is the root of a live window.
C26_Witness ==
  \E v \in Views, w \in Views :
    /\ lastOp = <<"become_first_responder", v, v>>
    /\ result = "False"
    /\ hookLog = <<>>
    /\ first_responder[RootOf(v)] # NoView
    /\ w \in root_to_runtime
    /\ w # RootOf(v)
    /\ IsAncestorOrSelf(w, v)

\* ------------------------------------------------------------------ colours

RECURSIVE GCD(_, _)
GCD(a, b) == IF b = 0 THEN a ELSE GCD(b, a % b)

\* The float n / d, as the fraction in lowest terms (the quotients met here
\* are equal as floats exactly when they are equal as fractions).
Ratio(n, d) == [n |-> n \div GCD(n, d), d |-> d \div GCD(n, d)]

\* A string is the sequence of its characters.
Digits == <<"0", "1", "2", "3", "4", "5", "6", "7", "8", "9">>

LowerLetters ==
  <<"a", "b", "c", "d", "e", "f", "g", "h", "i", "j", "k", "l", "m",
    "n", "o", "p", "q", "r", "s", "t", "u", "v", "w", "x", "y", "z">>

UpperLetters ==
  <<"A", "B", "C", "D", "E", "F", "G", "H", "I", "J", "K", "L", "M",
    "N", "O", "P", "Q", "R", "S", "T", "U", "V", "W", "X", "Y", "Z">>

\* str.lower, one character
Lower(ch) ==
  IF \E i \in 1..26 : UpperLetters[i] = ch
  THEN LowerLetters[CHOOSE i \in 1..26 : UpperLetters[i] = ch]
  ELSE ch

\* c.lower().replace(" ", "")
Normalised(str) == SelectSeq([i \in 1..Len(str) |-> Lower(str[i])],
                             LAMBDA ch : ch # " ")

RECURSIVE LStrip(_)
\* c.lstrip("#")
LStrip(str) ==
  IF str # <<>> /\ str[1] = "#" THEN LStrip(Tail(str)) ELSE str

\* [A-Fa-f0-9]
HexChars == Digits \o SubSeq(LowerLetters, 1, 6)

IsHexChar(ch) == \E i \in 1..16 : HexChars[i] = Lower(ch)

\* fullmatch(r"[A-Fa-f0-9]{n}", str)
FullMatchHex(str, n) == Len(str) = n /\ \A i \in 1..n : IsHexChar(str[i])

RECURSIVE IntOfHex(_)
\* int(str, 16)
IntOfHex(str) ==
  IF str = <<>> THEN 0
  ELSE 16 * IntOfHex(SubSeq(str, 1, Len(str) - 1))
       + (CHOOSE d \in 0..15 : HexChars[d + 1] = Lower(str[Len(str)]))

\* The characters of a string literal of the model.
Chars(name) ==
  CASE name = "clear" -> <<"c", "l", "e", "a", "r">>
    [] name = "transparent" ->
         <<"t", "r", "a", "n", "s", "p", "a", "r", "e", "n", "t">>
    [] name = "black" -> <<"b", "l", "a", "c", "k">>
    [] name = "white" -> <<"w", "h", "i", "t", "e">>
    [] name = "red" -> <<"r", "e", "d">>
    [] name = "green" -> <<"g", "r", "e", "e", "n">>
    [] name = "lime" -> <<"l", "i", "m", "e">>
    [] name = "blue" -> <<"b", "l", "u", "e">>
    [] name = "yellow" -> <<"y", "e", "l", "l", "o", "w">>
    [] name = "cyan" -> <<"c", "y", "a", "n">>
    [] name = "aqua" -> <<"a", "q", "u", "a">>
    [] name = "magenta" -> <<"m", "a", "g", "e", "n", "t", "a">>
    [] name = "fuchsia" -> <<"f", "u", "c", "h", "s", "i", "a">>
    [] name = "orange" -> <<"o", "r", "a", "n", "g", "e">>
    [] name = "purple" -> <<"p", "u", "r", "p", "l", "e">>
    [] name = "brown" -> <<"b", "r", "o", "w", "n">>
    [] name = "pink" -> <<"p", "i", "n", "k">>
    [] name = "gray" -> <<"g", "r", "a", "y">>
    [] name = "grey" -> <<"g", "r", "e", "y">>
    [] name = "lightgray" -> <<"l", "i", "g", "h", "t", "g", "r", "a", "y">>
    [] name = "lightgrey" -> <<"l", "i", "g", "h", "t", "g", "r", "e", "y">>
    [] name = "darkgray" -> <<"d", "a", "r", "k", "g", "r", "a", "y">>
    [] name = "darkgrey" -> <<"d", "a", "r", "k", "g", "r", "e", "y">>
    [] name = "silver" -> <<"s", "i", "l", "v", "e", "r">>
    [] name = "navy" -> <<"n", "a", "v", "y">>
    [] name = "teal" -> <<"t", "e", "a", "l">>
    [] name = "maroon" -> <<"m", "a", "r", "o", "o", "n">>
    [] name = "olive" -> <<"o", "l", "i", "v", "e">>

\* _CSS_COLORS: name and components in hundredths.
CSS_COLORS ==
  {
    <<"clear", <<0, 0, 0, 0>>>>,
    <<"transparent", <<0, 0, 0, 0>>>>,
    <<"black", <<0, 0, 0, 100>>>>,
    <<"white", <<100, 100, 100, 100>>>>,
    <<"red", <<100, 0, 0, 100>>>>,
    <<"green", <<0, 50, 0, 100>>>>,
    <<"lime", <<0, 100, 0, 100>>>>,
    <<"blue", <<0, 0, 100, 100>>>>,
    <<"yellow", <<100, 100, 0, 100>>>>,
    <<"cyan", <<0, 100, 100, 100>>>>,
    <<"aqua", <<0, 100, 100, 100>>>>,
    <<"magenta", <<100, 0, 100, 100>>>>,
    <<"fuchsia", <<100, 0, 100, 100>>>>,
    <<"orange", <<100, 65, 0, 100>>>>,
    <<"purple", <<50, 0, 50, 100>>>>,
    <<"brown", <<60, 40, 20, 100>>>>,
    <<"pink", <<100, 75, 80, 100>>>>,
    <<"gray", <<50, 50, 50, 100>>>>,
    <<"grey", <<50, 50, 50, 100>>>>,
    <<"lightgray", <<83, 83, 83, 100>>>>,
    <<"lightgrey", <<83, 83, 83, 100>>>>,
    <<"darkgray", <<33, 33, 33, 100>>>>,
    <<"darkgrey", <<33, 33, 33, 100>>>>,
    <<"silver", <<75, 75, 75, 100>>>>,
    <<"navy", <<0, 0, 50, 100>>>>,
    <<"teal", <<0, 50, 50, 100>>>>,
    <<"maroon", <<50, 0, 0, 100>>>>,
    <<"olive", <<50, 50, 0, 100>>>>
  }

\* What parse_color returns: an RGBA tuple or None.
Rgba(r, g, b, a) == [some |-> TRUE, rgba |-> <<r, g, b, a>>]

NoColor == [some |-> FALSE, rgba |-> <<>>]

\* An int that is unpacked as alpha, red, green, blue from the top byte down.
ParseIntArgbFirst(n) ==
  IF n > 16777215
  THEN Rgba(Ratio((n \div 65536) % 256, 255), Ratio((n \div 256) % 256, 255),
            Ratio(n % 256, 255), Ratio((n \div 16777216) % 256, 255))
  ELSE Rgba(Ratio((n \div 65536) % 256, 255), Ratio((n \div 256) % 256, 255),
            Ratio(n % 256, 255), Ratio(1, 1))

\* parse_color of an int: "c >> k & 0xFF" is (c \div 2^k) % 256.
ParseInt(n) ==
  IF n > 16777215
  THEN Rgba(Ratio((n \div 16777216) % 256, 255),
            Ratio((n \div 65536) % 256, 255),
            Ratio((n \div 256) % 256, 255), Ratio(n % 256, 255))
  ELSE Rgba(Ratio((n \div 65536) % 256, 255), Ratio((n \div 256) % 256, 255),
            Ratio(n % 256, 255), Ratio(1, 1))

\* The value of a name of _CSS_COLORS, or None.
CssLookup(key) ==
  IF \E e \in CSS_COLORS : Chars(e[1]) = key
  THEN LET named == (CHOOSE e \in CSS_COLORS : Chars(e[1]) = key)[2]
       IN  Rgba(Ratio(named[1], 100), Ratio(named[2], 100),
                Ratio(named[3], 100), Ratio(named[4], 100))
  ELSE NoColor

\* The hex branch of parse_color, on hex_val = c.lstrip("#").
ParseHex(hex_val) ==
  LET Byte(i) == Ratio(IntOfHex(SubSeq(hex_val, i + 1, i + 2)), 255)
  IN  IF FullMatchHex(hex_val, 6)
      THEN Rgba(Byte(0), Byte(2), Byte(4), Ratio(1, 1))
      ELSE IF FullMatchHex(hex_val, 8)
      THEN Rgba(Byte(0), Byte(2), Byte(4), Byte(6))
      ELSE NoColor

\* The hex branch without the lstrip: a leading "#" is not accepted.
ParseHexUnstripped(str) == ParseHex(str)

\* The hex branch of parse_color.
ParseHexStripped(str) == ParseHex(LStrip(str))

\* parse_color of a str
ParseStr(str) ==
  LET Named(named) == IF named.some THEN named ELSE ParseHexStripped(str)
  IN  Bind(CssLookup(Normalised(str)), Named)

\* parse_color of a tuple: only tuples of 4 or 3 components are colours.
ParseTuple(t) ==
  IF Len(t) \in {3, 4}
  THEN [some |-> TRUE, rgba |-> parse_color(t)]
  ELSE NoColor

\* parse_color; the argument carries its Python type.
parse_color_of(c) ==
  CASE c.type = "NoneType" -> NoColor
    [] c.type = "tuple" -> ParseTuple(c.value)
    [] c.type = "int" -> ParseInt(c.value)
    [] c.type = "str" -> ParseStr(c.value)
    [] c.type = "bool" -> NoColor

Arg(type, value) == [type |-> type, value |-> value]

\* A set_color that keeps the current colour when the input is no colour.
SetColorKeeping(c, color) ==
  LET Set(parsed) == [c EXCEPT !.color = IF parsed.some THEN parsed.rgba ELSE @]
  IN  Bind(parse_color_of(color), Set)

\* set_color: ctx.color = parse_color(c) or (0.0, 0.0, 0.0, 1.0)
set_color_of(c, color) ==
  LET Set(parsed) ==
        [c EXCEPT !.color = IF parsed.some THEN parsed.rgba ELSE <<0, 0, 0, 1>>]
  IN  Bind(parse_color_of(color), Set)

\* The hex digit of value d, and the hex string of n with len digits.
HexDigit(d, upper) == IF upper /\ d > 9 THEN UpperLetters[d - 9] ELSE HexChars[d + 1]

Pow16(k) == 16 ^ k

HexString(n, len, upper) ==
  [i \in 1..len |-> HexDigit((n \div Pow16(len - i)) % 16, upper)]

\* The bytes the colours of the check are made of, and these colours.
Bytes == {0, 1, 15, 16, 128, 254, 255}

Rgb24 == {65536 * r + 256 * g + b : r \in Bytes, g \in Bytes, b \in Bytes}

\* The top bytes of the 32-bit ints (the model's integers end at 2^31 - 1).
TopBytes == {1, 15, 16, 127}

Argb32 == {16777216 * a + n : a \in TopBytes, n \in Rgb24}

\* The arguments of the check, by Python type: ints, the hex strings of the
\* 24-bit ints and names, strings that are no colour, tuples, None and bools.
IntArgs == {Arg("int", n) : n \in Rgb24 \cup Argb32}

HexArgs ==
  {Arg("str", pre \o HexString(n, 6, upper)) :
     n \in Rgb24, upper \in BOOLEAN, pre \in {<<>>, <<"#">>}}

NameArgs == {Arg("str", <<"R", "e", " ", "d">>), Arg("str", Chars("olive"))}

JunkArgs ==
  {Arg("str", <<"r", "e", "d", "d">>), Arg("str", <<"#", "#", "f", "f">>),
   Arg("str", <<>>)}

TupleArgs ==
  {Arg("tuple", t) :
     t \in {<<r, g, b>> : r \in 0..2, g \in 0..2, b \in 0..2}
             \cup {<<r, g, b, a>> : r \in 0..2, g \in 0..2, b \in 0..2,
                                    a \in 0..2}
             \cup {<<1, 1>>}}

NoneArgs == {Arg("NoneType", <<>>), Arg("bool", <<>>)}

\* What the colour functions leave alone.
otherThanColor ==
  <<treeVars, geomVars, flagVars, touchVars, attrVars, animVars, backendVars,
    delayVars, modalVars, pumpVars, colorVars, switchVars, threadVars, hookVars, raised, root_to_runtime, first_responder,
    hookLog>>

\* Application code: parse_color(c) with the argument of this run.
ParseColorCall ==
  /\ result' = parse_color_of(color_arg)
  /\ lastOp' = <<"parse_color", color_arg.type, color_arg.type>>
  /\ UNCHANGED <<drawVars, otherThanColor>>

\* Application code: set_color(c)
SetColorCall(c) ==
  /\ ctx' = set_color_of(ctx, c)
  /\ lastOp' = <<"set_color", c.type, c.value>>
  /\ UNCHANGED <<border_width, content_mode, content_draw, rendering, pending,
                 scopes, scopeLog, passEntry, painted, result, otherThanColor>>

ParseColorStep == ParseColorCall

\* The context's colour stays a tuple of the model's numbers: set_color is
\* called with tuples and with what is no colour.
SetColorStep ==
  \/ \E c \in TupleArgs : SetColorCall(c)
  \/ \E c \in JunkArgs : SetColorCall(c)
  \/ \E c \in NoneArgs : SetColorCall(c)

NextColor == ParseColorStep

NextSetColor == SetColorStep

\* Fresh views and a fresh drawing context; the argument of parse_color is
\* any of the arguments above.
InitColor ==
  /\ InitTree
  /\ InitViewDefaults
  /\ InitNoRuntime
  /\ InitNoFocus
  /\ InitAttrDefaults
  /\ InitNoAnim
  /\ InitNoBackend
  /\ InitNoModal
  /\ InitNoPump
  /\ InitNoCalls
  /\ InitNoSwitch
  /\ InitNoThread
  /\ InitNoHooks
  /\ InitNoDraw
  /\ \/ color_arg \in IntArgs
     \/ color_arg \in HexArgs \cup NameArgs \cup JunkArgs
     \/ color_arg \in TupleArgs
     \/ color_arg \in NoneArgs

SpecColor == InitColor /\ [][NextColor]_vars

SpecSetColor == InitFresh /\ [][NextSetColor]_vars

\* The int and the float channels that bytes stand for.
Pack3(r, g, b) == 65536 * r + 256 * g + b

Pack4(b3, b2, b1, b0) == 16777216 * b3 + 65536 * b2 + 256 * b1 + b0

Channel(byte) == Ratio(byte, 255)

ParsedAs(type) == lastOp[1] = "parse_color" /\ color_arg.type = type

\* C27: for every 24-bit value n = 0xRRGGBB, parse_color of the int n and
\* parse_color of the 6-digit hex string of n, in either case and with or
\* without a leading "#", give the same RGBA: the three bytes of n divided by
\* 255 and alpha 1.0; parse_color(None) gives no colour.
C27_HexStringAndIntAgree ==
  /\ ParsedAs("int") =>
       \A r \in Bytes, g \in Bytes, b \in Bytes :
         color_arg.value = Pack3(r, g, b) =>
           result = Rgba(Channel(r), Channel(g), Channel(b), Ratio(1, 1))
  /\ ParsedAs("str") =>
       \A r \in Bytes, g \in Bytes, b \in Bytes :
         (\E upper \in BOOLEAN :
            \E hex \in {HexString(Pack3(r, g, b), 6, upper)} :
              color_arg.value \in {hex, <<"#">> \o hex}) =>
           result = Rgba(Channel(r), Channel(g), Channel(b), Ratio(1, 1))
  /\ ParsedAs("NoneType") => result = NoColor

\* parse_color("#FF0000") has returned (1.0, 0.0, 0.0, 1.0).
C27_Witness ==
  /\ ParsedAs("str")
  /\ color_arg.value = <<"#", "F", "F", "0", "0", "0", "0">>
  /\ result = Rgba(Ratio(1, 1), Ratio(0, 1), Ratio(0, 1), Ratio(1, 1))

\* C28 as stated: an int above 0xFFFFFF is unpacked as 0xAARRGGBB, alpha
\* from bits 24-31, red from bits 16-23, green from bits 8-15 and blue from
\* bits 0-7, each divided by 255.
C28_UnpackedAlphaFirst ==
  ParsedAs("int") =>
    \A a \in TopBytes, r \in Bytes, g \in Bytes, b \in Bytes :
      color_arg.value = Pack4(a, r, g, b) =>
        result = Rgba(Channel(r), Channel(g), Channel(b), Channel(a))

\* C28, amended: an int above 0xFFFFFF is unpacked as 0xRRGGBBAA, red from
\* bits 24-31, green from bits 16-23, blue from bits 8-15 and alpha from bits
\* 0-7, each divided by 255.
C28_UnpackedAlphaLast ==
  ParsedAs("int") =>
    \A r \in TopBytes, g \in Bytes, b \in Bytes, a \in Bytes :
      color_arg.value = Pack4(r, g, b, a) =>
        result = Rgba(Channel(r), Channel(g), Channel(b), Channel(a))

\* parse_color(0x0F008001) has returned (15/255, 0.0, 128/255, 1/255).
C28_Witness ==
  /\ ParsedAs("int")
  /\ color_arg.value = Pack4(15, 0, 128, 1)
  /\ result = Rgba(Ratio(1, 17), Ratio(0, 1), Ratio(128, 255), Ratio(1, 255))

\* The last call was set_color with an argument parse_color returns None for.
SetColorOfNoColor ==
  /\ lastOp[1] = "set_color"
  /\ ~parse_color_of(Arg(lastOp[2], lastOp[3])).some

ResizeCalls(v) ==
  <<Call("_apply_autoresizing", v, subviews[v]), Call("layout", v, <<>>),
    Call("set_needs_display", v, <<>>)>>

MoveCalls(v) == <<Call("set_needs_display", v, <<>>)>>

SameSize(r1, r2) == r1.w = r2.w /\ r1.h = r2.h

\* C30: an assignment to frame or bounds (or to x, y, width, height or center,
\* which assign frame) made outside an animate body and changing the size
\* calls, in this order and once each, _apply_autoresizing, whose loop goes
\* over the direct subviews, layout, and set_needs_display; one that leaves
\* the size as it was calls set_needs_display only.  Both leave the view
\* dirty.
C30_ResizeCallsInOrder ==
  [][lastOp'[1] = "write" =>
       LET v == lastOp'[2]
           same == IF lastOp'[3] = "bounds"
                   THEN SameSize(bounds'[v], bounds[v])
                   ELSE SameSize(frame'[v], frame[v])
       IN  /\ setter_calls' = IF same THEN MoveCalls(v) ELSE ResizeCalls(v)
           /\ needs_display'[v]]_vars

\* View 2 was given a frame of another size: its subview 3 was autoresized,
\* then layout ran, then the view was marked dirty.
C30_Witness ==
  /\ lastOp = <<"write", 2, "frame">>
  /\ setter_calls = ResizeCalls(2)
  /\ subviews[2] = <<3>>
  /\ needs_display[2]

\* ------------------------------------------------------------- the Switch

\* The tolerance of update, one unit; the full travel of the knob and the
\* full stretch of the pill, in these units; the press age, in updates, from
\* which the pill's target is the full stretch.
SwitchEps == 1

FullProgress == 4

FullStretch == 4

MaxElapsed == 3

\* update: x += diff * lerp_speed, with lerp_speed = 1 - 0.00005 ** dt taken
\* as one half; the value moves towards its target and never past it.
LerpStep(diff) ==
  IF diff >= 0 THEN (diff + 1) \div 2 ELSE 0 - ((1 - diff) \div 2)

\* update: min(8.0, max(0.0, (elapsed - 0.03) * 65.0)) while tracked, else 0.
TargetStretch(sw) ==
  IF sw.tracked
  THEN Min(FullStretch, Max(0, (sw.elapsed - 1) * 2))
  ELSE 0

\* A value setter that never starts the periodic update.
ValueSetterNoUpdate(sw, value) ==
  IF sw.value # value
  THEN [sw EXCEPT !.value = value,
                  !.target_progress = IF value THEN FullProgress ELSE 0,
                  !.anim_progress = IF sw.animations_disabled
                                    THEN IF value THEN FullProgress ELSE 0
                                    ELSE @]
  ELSE sw

\* Switch.value (setter)
value_setter(sw, value) ==
  IF sw.value # value
  THEN [sw EXCEPT !.value = value,
                  !.target_progress = IF value THEN FullProgress ELSE 0,
                  !.anim_progress = IF sw.animations_disabled
                                    THEN IF value THEN FullProgress ELSE 0
                                    ELSE @,
                  !.update_interval = IF sw.animations_disabled THEN @ ELSE 1]
  ELSE sw

\* An update that stops the periodic update as soon as both values are at
\* their targets, tracked or not.
UpdateStopsWhenDone(sw) ==
  LET diff == sw.target_progress - sw.anim_progress
      stretch_diff == TargetStretch(sw) - sw.current_stretch
      done == Abs(diff) <= SwitchEps /\ Abs(stretch_diff) <= SwitchEps
  IN  [sw EXCEPT
         !.anim_progress = IF Abs(diff) > SwitchEps THEN @ + LerpStep(diff)
                           ELSE sw.target_progress,
         !.current_stretch = IF Abs(stretch_diff) > SwitchEps
                             THEN @ + LerpStep(stretch_diff)
                             ELSE TargetStretch(sw),
         !.update_interval = IF done THEN 0 ELSE @]

\* Switch.update, called at a press age already advanced to now.
update(sw) ==
  IF sw.animations_disabled
  THEN [sw EXCEPT !.anim_progress = sw.target_progress,
                  !.current_stretch = IF sw.tracked THEN FullStretch ELSE 0,
                  !.update_interval = 0]
  ELSE LET diff == sw.target_progress - sw.anim_progress
           stretch_diff == TargetStretch(sw) - sw.current_stretch
           done == Abs(diff) <= SwitchEps /\ Abs(stretch_diff) <= SwitchEps
       IN  [sw EXCEPT
              !.anim_progress = IF Abs(diff) > SwitchEps
                                THEN @ + LerpStep(diff)
                                ELSE sw.target_progress,
              !.current_stretch = IF Abs(stretch_diff) > SwitchEps
                                  THEN @ + LerpStep(stretch_diff)
                                  ELSE TargetStretch(sw),
              !.update_interval = IF done /\ ~sw.tracked THEN 0 ELSE @]

\* Switch.touch_began; inside is _point_inside_switch of the touch.
touch_began(sw, inside) ==
  IF ~sw.enabled \/ ~inside THEN sw
  ELSE [sw EXCEPT !.tracked = TRUE, !.did_change_during_move = FALSE,
                  !.elapsed = 0,
                  !.update_interval = IF sw.animations_disabled THEN @ ELSE 1]

\* Switch.touch_moved; right is touch.location[0] > self.width / 2.
touch_moved(sw, right) ==
  IF ~(sw.tracked /\ sw.enabled) THEN sw
  ELSE IF right # sw.value
  THEN [value_setter(sw, right) EXCEPT !.did_change_during_move = TRUE]
  ELSE sw

\* Switch.touch_ended
touch_ended(sw, phase) ==
  IF ~(sw.tracked /\ sw.enabled) THEN sw
  ELSE LET s1 == [sw EXCEPT !.tracked = FALSE]
           s2 == IF phase = "ended" /\ ~s1.did_change_during_move
                 THEN value_setter(s1, ~s1.value) ELSE s1
       IN  IF s2.current_stretch > SwitchEps /\ ~s2.animations_disabled
           THEN [s2 EXCEPT !.update_interval = 1]
           ELSE s2

\* What the Switch's methods leave alone.
otherThanSwitch ==
  <<treeVars, geomVars, flagVars, touchVars, focusVars, attrVars, animVars,
    backendVars, delayVars, modalVars, pumpVars, colorVars, threadVars, hookVars,
    drawVars, raised>>

\* BaseRuntime._touch_down reaching the Switch: the runtime tracks the touch
\* and calls touch_began.
SwitchTouchBegan(inside) ==
  /\ ~pressed
  /\ switch' = touch_began(switch, inside)
  /\ pressed' = TRUE
  /\ lastOp' = <<"touch_began", inside, inside>>
  /\ UNCHANGED otherThanSwitch

\* BaseRuntime._touch_move of the tracked touch.
SwitchTouchMoved(right) ==
  /\ pressed
  /\ switch' = touch_moved(switch, right)
  /\ lastOp' = <<"touch_moved", right, right>>
  /\ UNCHANGED <<pressed, otherThanSwitch>>

\* BaseRuntime._touch_up and _touch_cancel of the tracked touch.
SwitchTouchEnded(phase) ==
  /\ pressed
  /\ switch' = touch_ended(switch, phase)
  /\ pressed' = FALSE
  /\ lastOp' = <<"touch_ended", phase, phase>>
  /\ UNCHANGED otherThanSwitch

\* BaseRuntime._update_hierarchy: update() is called while update_interval
\* is positive; time has passed since the last call.
SwitchUpdate(now) ==
  /\ switch.update_interval > 0
  /\ switch' = update([switch EXCEPT !.elapsed = now])
  /\ lastOp' = <<"update", now, now>>
  /\ UNCHANGED <<pressed, otherThanSwitch>>

\* Application code: switch.enabled = value
SwitchSetEnabled(value) ==
  /\ switch' = [switch EXCEPT !.enabled = value]
  /\ lastOp' = <<"enabled", value, value>>
  /\ UNCHANGED <<pressed, otherThanSwitch>>

\* Application code: switch.value = value
SwitchSetValue(value) ==
  /\ switch' = value_setter(switch, value)
  /\ lastOp' = <<"value", value, value>>
  /\ UNCHANGED <<pressed, otherThanSwitch>>

\* Application code: switch._animations_disabled = value
SwitchSetAnimationsDisabled(value) ==
  /\ switch' = [switch EXCEPT !.animations_disabled = value]
  /\ lastOp' = <<"_animations_disabled", value, value>>
  /\ UNCHANGED <<pressed, otherThanSwitch>>

SwitchTouchBeganStep == \E inside \in BOOLEAN : SwitchTouchBegan(inside)

SwitchTouchMovedStep == \E right \in BOOLEAN : SwitchTouchMoved(right)

SwitchTouchEndedStep ==
  \E phase \in {"ended", "cancelled"} : SwitchTouchEnded(phase)

\* The press age only counts up to the age of the full stretch.
SwitchUpdateStep ==
  \E now \in {Min(a, MaxElapsed) : a \in (switch.elapsed + 1)..(MaxElapsed + 1)} :
    SwitchUpdate(now)

SwitchSetStep ==
  \E value \in BOOLEAN :
    \/ SwitchSetEnabled(value)
    \/ SwitchSetValue(value)
    \/ SwitchSetAnimationsDisabled(value)

NextSwitch ==
  \/ SwitchTouchBeganStep
  \/ SwitchTouchMovedStep
  \/ SwitchTouchEndedStep
  \/ SwitchUpdateStep
  \/ SwitchSetStep

SpecSwitch == InitFresh /\ [][NextSwitch]_vars

\* The knob and the pill are where update steers them.
AtTargets(sw) ==
  /\ sw.anim_progress = sw.target_progress
  /\ sw.current_stretch = TargetStretch(sw)

\* The periodic update is only switched on by a touch or a change of value.
StartedByTouchOrValue ==
  (switch.update_interval = 0 /\ switch'.update_interval # 0) =>
    lastOp'[1] \in {"touch_began", "touch_moved", "touch_ended", "value"}

\* C31: with animations enabled, once a press has ended (touch_ended with
\* phase "ended" or "cancelled", whatever was assigned to enabled and value
\* during the press), the update that leaves progress and stretch at their
\* targets sets update_interval to 0, and it stays 0 until the next touch or
\* change of value.
C31_UpdateStopsAfterPress ==
  [][/\ (/\ lastOp'[1] = "update"
         /\ ~pressed'
         /\ ~switch'.animations_disabled
         /\ AtTargets(switch')) => switch'.update_interval = 0
     /\ StartedByTouchOrValue]_vars

\* C31 for a press whose touch_ended was not ignored: the Switch no longer
\* counts itself as tracked.
C31_HoldsWhenNotLeftTracked ==
  [][/\ (/\ lastOp'[1] = "update"
         /\ ~pressed'
         /\ ~switch'.tracked
         /\ ~switch'.animations_disabled
         /\ AtTargets(switch')) => switch'.update_interval = 0
     /\ StartedByTouchOrValue]_vars

\* After a press that ended, an update has left the knob at its end and the
\* pill retracted, and has stopped the periodic update.
C31_StoppedCase ==
  /\ lastOp[1] = "update"
  /\ ~pressed
  /\ ~switch.tracked
  /\ ~switch.animations_disabled
  /\ switch.value
  /\ AtTargets(switch)
  /\ switch.anim_progress = FullProgress
  /\ switch.update_interval = 0

\* ------------------------------------------------ the hooks of one touch id

\* The handlers set _tracked[id] when they deliver touch_began and pop it
\* when they deliver touch_ended, so before an event tracked[i] is the view
\* whose touch_began for id i has not been followed by a touch_ended yet.
OpenBegan(i) == tracked[i]

\* The hooks of an event respect the order began, moved ..., ended per id,
\* and a view with an open touch_began is only let go with its touch_ended.
HooksPaired ==
  /\ \A k \in 1..Len(delivered') :
       LET t == delivered'[k]
       IN  /\ t.hook = "touch_began" => OpenBegan(t.touch_id) = NoView
           /\ t.hook = "touch_moved" => OpenBegan(t.touch_id) = t.view
           /\ t.hook = "touch_ended" =>
                /\ OpenBegan(t.touch_id) = t.view
                /\ tracked'[t.touch_id] = NoView
  /\ \A i \in TouchIds :
       (OpenBegan(i) # NoView /\ tracked'[i] # OpenBegan(i)) =>
         \E k \in 1..Len(delivered') :
           /\ delivered'[k].hook = "touch_ended"
           /\ delivered'[k].view = OpenBegan(i)
           /\ delivered'[k].touch_id = i

\* C32: for any sequence of Down, Move, Up and Cancel events, also a second
\* Down for an id that has had no Up, every touch_began delivered to a view
\* for touch id i is followed by exactly one touch_ended for that view and id
\* before any other touch_began for id i, and touch_moved for id i is only
\* delivered between the two.
C32_BeganThenEndedPerId ==
  [][lastOp'[1] \in TouchOps => HooksPaired]_vars

\* C32 for the events other than a Down for an id that is still tracked.
C32_HoldsUnlessDownWhileTracked ==
  [][(/\ lastOp'[1] \in TouchOps
      /\ ~(lastOp'[1] = "touch_down" /\ tracked[lastOp'[2]] # NoView)) =>
       HooksPaired]_vars

\* An Up has delivered the touch_ended of a view whose touch_began was open.
C32_EndedCase ==
  /\ lastOp[1] = "touch_up"
  /\ Len(delivered) = 1
  /\ delivered[1].hook = "touch_ended"
  /\ tracked[delivered[1].touch_id] = NoView

\* -------------------------------------------------- the pump thread's life

\* threading.Thread.is_alive(): the thread was started and its target has
\* not returned yet, wherever in _pump_loop it is.
IsAlive(th) == th \in {"check", "poll", "exiting"}

\* An is_alive() that is false once the thread has left its loop.
IsAliveInLoop(th) == th \in {"check", "poll"}

\* What the registration and the pump thread leave alone.
otherThanThread ==
  <<treeVars, geomVars, flagVars, touchVars, focusVars, attrVars, animVars,
    backendVars, delayVars, modalVars, colorVars, switchVars, hookVars, drawVars, raised>>

\* SDLRuntime.__init__: _register_runtime(self) under _wmap_lock, which
\* starts a pump thread unless one is alive; then run() begins.
RegisterRuntime(w) ==
  /\ loopPc[w] = "new"
  /\ window_map' = [window_map EXCEPT ![w] = TRUE]
  /\ pump_thread' = IF IsAlive(pump_thread) THEN pump_thread ELSE "check"
  /\ running' = [running EXCEPT ![w] = TRUE]
  /\ loopPc' = [loopPc EXCEPT ![w] = "top"]
  /\ lastOp' = <<"register", w, pump_thread>>
  /\ UNCHANGED <<event_queue, routing, handled, polled, otherThanThread>>

\* _pump_loop: "with _wmap_lock: if not _window_map: break"
PumpLoopCheck ==
  /\ pump_thread = "check"
  /\ pump_thread' = IF \E w \in Windows : window_map[w] THEN "poll"
                    ELSE "exiting"
  /\ lastOp' = <<"check", 0, pump_thread'>>
  /\ UNCHANGED <<pumpVars, otherThanThread>>

\* _pump_loop: SDL_PollEvent returned an event; _route_event looks up where
\* it goes.
PumpLoopPoll(kind, wid) ==
  /\ pump_thread = "poll"
  /\ routing = NoRouting
  /\ polled < MaxEvents
  /\ polled' = polled + 1
  /\ \E msg \in {Message(kind, wid)} :
       \E targets \in {Route(window_map, msg)} :
         routing' = IF targets = <<>> THEN NoRouting
                    ELSE [msg |-> msg, targets |-> targets]
  /\ lastOp' = <<"poll", wid, kind>>
  /\ UNCHANGED <<window_map, event_queue, loopPc, running, handled,
                 pump_thread, otherThanThread>>

\* _pump_loop: SDL_PollEvent returned 0; time.sleep(0.001) and back to the
\* top of the loop.
PumpLoopSleep ==
  /\ pump_thread = "poll"
  /\ routing = NoRouting
  /\ pump_thread' = "check"
  /\ lastOp' = <<"sleep", 0, "none">>
  /\ UNCHANGED <<pumpVars, otherThanThread>>

\* _pump_loop returns after the break: the thread ends.
PumpLoopReturn ==
  /\ pump_thread = "exiting"
  /\ pump_thread' = "dead"
  /\ lastOp' = <<"return", 0, "none">>
  /\ UNCHANGED <<pumpVars, otherThanThread>>

RegisterRuntimeStep == \E w \in Windows : RegisterRuntime(w)

PumpLoopPollStep ==
  \E kind \in EventKinds, wid \in 1..(MaxWindows + 1) : PumpLoopPoll(kind, wid)

PumpLoopStep ==
  \/ PumpLoopCheck
  \/ PumpLoopPollStep
  \/ PumpLoopSleep
  \/ PumpLoopReturn

NextThread ==
  \/ RegisterRuntimeStep
  \/ PumpLoopStep
  \/ PumpPut
  \/ LoopStep

SpecThread == InitFresh /\ [][NextThread]_vars

\* A pump thread is in its loop, where it polls and routes.
PumpRunning == pump_thread \in {"check", "poll"}

\* C33: whenever a runtime is registered in the window map, a pump thread is
\* running that will poll and route its events, also when a runtime
\* registers while the pump thread of the last runtime that unregistered
\* makes its exit check.
C33_RegisteredHasPump ==
  (\E w \in Windows : window_map[w]) => PumpRunning

\* C33 for a registration that does not meet a pump thread on its way out.
C33_HoldsUnlessPumpIsLeaving ==
  [][(lastOp'[1] = "register" /\ pump_thread # "exiting") => PumpRunning']_vars

\* A runtime registered while no thread was alive, and a thread was started.
C33_StartedCase ==
  /\ lastOp = <<"register", 2, "dead">>
  /\ window_map[2]
  /\ pump_thread = "check"

\* ------------------------------------------- focus requests made by a hook

\* The hooks in which a view may ask for focus on behalf of another view.
HookPoints == {"resign", "acquire"}

\* BaseRuntime._set_first_responder(view), run to its end on a runtime whose
\* _first_responder is old, when the hook named by on calls
\* w.become_first_responder() the first time it runs (the hooks that nested
\* request invokes ask for nothing). The resign hook runs while
\* _first_responder is still old; the acquire hook runs after the assignment.
set_first_responder_in_hook(old, view, on, w) ==
  IF old = view THEN [first_responder |-> old, log |-> <<>>]
  ELSE [first_responder |-> IF on = "acquire" THEN w ELSE view,
        log |-> (IF old = NoView THEN <<>>
                 ELSE <<<<"resign", old>>>>
                      \o (IF on = "resign" THEN SetFirstResponderHooks(old, w)
                          ELSE <<>>))
                \o <<<<"acquire", view>>>>
                \o (IF on = "acquire" THEN SetFirstResponderHooks(view, w)
                    ELSE <<>>)]

\* v.become_first_responder() in a window where one of the two hooks asks for
\* focus for w, a view of the same window.
become_first_responder_in_hook(v, on, w) ==
  LET r == get_runtime_for_view(v)
  IN  /\ r # NoView
      /\ get_runtime_for_view(w) = r
      /\ \E out \in {set_first_responder_in_hook(first_responder[r], v, on, w)} :
           /\ hookLog' = out.log
           /\ first_responder' = [first_responder EXCEPT ![r] = out.first_responder]
           /\ acquired' = [acquired EXCEPT ![r] = AfterHooks(acquired[r], out.log)]
      /\ result' = "True"
      /\ lastOp' = <<IF on = "resign" THEN "request in resign hook"
                     ELSE "request in acquire hook", v, w>>
      /\ UNCHANGED <<root_to_runtime, treeVars, geomVars, flagVars, touchVars, raised,
               attrVars, animVars, backendVars, delayVars, modalVars, pumpVars,
               colorVars, switchVars, threadVars, drawVars>>

BecomeFirstResponderInHookStep ==
  \E v \in Views, on \in HookPoints, w \in Views :
    become_first_responder_in_hook(v, on, w)

\* Windows are opened, their trees are built and views ask for focus.
NextHooks ==
  \/ RuntimeInitStep
  \/ AttachStep
  \/ BecomeFirstResponderStep
  \/ BecomeFirstResponderInHookStep

SpecHooks ==
  /\ InitFresh
  /\ [][NextHooks]_vars

\* In every window the views that hold an acquire hook not yet followed by
\* their resign hook are the first responder and nothing else.
OneHolder ==
  \A r \in root_to_runtime : acquired[r] = {first_responder[r]} \ {NoView}

RECURSIVE HooksInTurn(_, _)
\* Every hook of log comes in its turn on top of held: an acquire hook goes to
\* a view that holds none, a resign hook to a view that holds one, and at no
\* point do two views hold one.
HooksInTurn(held, log) ==
  IF log = <<>> THEN TRUE
  ELSE LET h == Head(log)
           next == AfterHooks(held, <<h>>)
       IN  /\ (h[1] = "acquire") => (h[2] \notin held)
           /\ (h[1] = "resign") => (h[2] \in held)
           /\ Cardinality(next) <= 1
           /\ HooksInTurn(next, Tail(log))

\* The last operation was a focus request.
FocusRequest(op) ==
  op[1] \in {"become_first_responder", "request in resign hook",
             "request in acquire hook"}

\* C34: across the focus requests of a window, those made from inside a
\* resign or an acquire hook included, every view receives its acquire and
\* resign hooks in turn starting with acquire, and at every point at most one
\* view holds an acquire hook not yet followed by its resign hook, that view
\* being the window's first responder.
C34_HooksAlternate ==
  /\ []OneHolder
  /\ [][\A r \in root_to_runtime :
          (FocusRequest(lastOp') /\ get_runtime_for_view(lastOp'[2]) = r) =>
            HooksInTurn(acquired[r], hookLog')]_vars

\* The same holds of every request that no resign hook answers with a
\* request of its own: such a request keeps the holder and the first
\* responder the same view and its hooks come in turn.
C34_HoldsOutsideResignHook ==
  [][\A r \in root_to_runtime :
       (/\ FocusRequest(lastOp')
        /\ lastOp'[1] # "request in resign hook"
        /\ get_runtime_for_view(lastOp'[2]) = r
        /\ acquired[r] = {first_responder[r]} \ {NoView}) =>
         /\ HooksInTurn(acquired[r], hookLog')
         /\ acquired'[r] = {first_responder'[r]} \ {NoView}]_vars

\* An acquire hook asked for focus for another view while a third view held
\* it, and the window ended with the other view as its only holder.
C34_AcquireHookCase ==
  \E v \in Views, w \in Views :
    /\ v # w
    /\ lastOp = <<"request in acquire hook", v, w>>
    /\ Len(hookLog) = 4
    /\ first_responder[RootOf(v)] = w
    /\ acquired[RootOf(v)] = {w}

\* ----------------------------------------- where the first responder lives

\* The first responder of the window under root r, if any, is r or a view
\* below r.
InRootTree(r) ==
  first_responder[r] # NoView => IsAncestorOrSelf(r, first_responder[r])

\* C35: in every reachable state the first responder of a window, if any, is
\* a view inside the tree of that window's root; taking the focused view or
\* one of its ancestors out of the tree leaves the window without a first
\* responder.
C35_FirstResponderInTree ==
  \A r \in root_to_runtime : InRootTree(r)

\* Right after a focus request the first responder of the window asked is
\* inside the tree of its root.
C35_HoldsAtRequest ==
  [][\A v \in Views :
       (/\ lastOp' = <<"become_first_responder", v, v>>
        /\ get_runtime_for_view(v) # NoView) =>
         InRootTree(get_runtime_for_view(v))']_vars

\* A view was given focus below the root of a live window.
C35_FocusedBelowRoot ==
  \E v \in Views :
    /\ lastOp = <<"become_first_responder", v, v>>
    /\ RootOf(v) \in root_to_runtime
    /\ RootOf(v) # v
    /\ first_responder[RootOf(v)] = v

\* ------------------------------------- several frame components in one body

\* The component of frame f that the property prop names.
Component(f, prop) ==
  CASE prop = "x" -> f.x
    [] prop = "y" -> f.y
    [] prop = "width" -> f.w
    [] prop = "height" -> f.h

\* The animation that call c scheduled finishes in this step: a call without
\* a duration returns, or a tick removes the last task of the call.
Finishes(c) ==
  \/ lastOp' = <<"animate_exit", c, 0>>
  \/ /\ lastOp'[1] = "tick"
     /\ TasksOf(active, c) # {}
     /\ TasksOf(active', c) = {}

\* Call c is the only animate call made so far and its body assigned nothing
\* but frame components of view v, each at most once.
ComponentsOnly(c, v, written, next) ==
  /\ next = c + 1
  /\ c = 1
  /\ written # <<>>
  /\ \A i \in 1..Len(written) :
       /\ written[i][1] = v
       /\ written[i][2] \in FrameProps
       /\ \A j \in 1..Len(written) : written[i][2] = written[j][2] => i = j

\* C36: when an animate body assigns several frame components of one view
\* through separate writes, then once the animation has finished each of
\* those components of the view's frame equals the value the body assigned.
C36_AllComponentsReflected ==
  [][\A c \in CallIds, v \in AnimViews :
       (Finishes(c) /\ ComponentsOnly(c, v, batch'[c].written, nextCall')) =>
         \A i \in 1..Len(batch'[c].written) :
           Component(frame'[v], batch'[c].written[i][2])
             = batch'[c].written[i][3]]_vars

\* The last component the body assigned is reflected.
C36_HoldsOfLastComponent ==
  [][\A c \in CallIds, v \in AnimViews :
       (Finishes(c) /\ ComponentsOnly(c, v, batch'[c].written, nextCall')) =>
         LET w == batch'[c].written
         IN  Component(frame'[v], w[Len(w)][2]) = w[Len(w)][3]]_vars

\* An animation whose body assigned two frame components has finished in a
\* tick.
C36_TwoComponentsCase ==
  \E v \in AnimViews :
    /\ lastOp[1] = "tick"
    /\ nextCall = 2
    /\ batch[1].returned
    /\ batch[1].duration > 0
    /\ TasksOf(active, 1) = {}
    /\ Len(batch[1].written) = 2
    /\ ComponentsOnly(1, v, batch[1].written, nextCall)

\* ------------------------------------------------- animate inside animate

\* The animate call that returns in this step captured every assignment its
\* body made: it scheduled one task, or applied one end value, for each.
ReturnsWithAllWrites ==
  (lastOp'[1] = "animate_exit" /\ callStack # <<>>) =>
    batch'[lastOp'[2]].n = Len(callStack[Len(callStack)].written)

\* The assignment a body makes in this step is not applied.
AssignsWithoutApplying ==
  lastOp'[1] = "assign" => Snapshot(Here)' = Snapshot(Here)

\* C37: if an animate body itself calls animate, the outer call still
\* captures all of the outer body's writes, those made before the inner call
\* and those made after it: none is applied at once and none is lost.
C37_OuterCallKeepsItsWrites ==
  [][ReturnsWithAllWrites /\ AssignsWithoutApplying]_vars

\* The same for the calls whose body has made no animate call.
C37_HoldsOfPlainBodies ==
  [][(callStack # <<>> /\ callStack[Len(callStack)].inner = 0) =>
       (ReturnsWithAllWrites /\ AssignsWithoutApplying)]_vars

\* An outer call returns whose body assigned before and after an inner call.
C37_OuterReturnsCase ==
  /\ lastOp[1] = "animate_exit"
  /\ callStack = <<>>
  /\ nextCall = 3
  /\ Len(batch[1].written) = 2
  /\ batch[2].returned

\* ---------------------------------------------- one task for an attribute

\* Tasks i and j of the active list animate the same attribute of the same
\* view for two different animate calls.
SameTarget(i, j) ==
  /\ active[i].view = active[j].view
  /\ active[i].attr = active[j].attr
  /\ active[i].call # active[j].call

\* C38: at most one running animation task exists for a view and attribute:
\* an animate call that animates an attribute which already has a running
\* task supersedes that task, so the active list never holds the tasks of two
\* calls for the same attribute of the same view.
C38_NewerCallSupersedes ==
  \A i \in 1..Len(active), j \in 1..Len(active) : ~SameTarget(i, j)

\* The tasks of the active list are those the calls scheduled, in the order
\* of the calls, none taken out before it has finished.
C38_HoldsThatCallsOnlyAppend ==
  [][lastOp'[1] = "animate_exit" =>
       /\ Len(active') >= Len(active)
       /\ SubSeq(active', 1, Len(active)) = active]_vars

\* A call has scheduled a task while the task of an earlier call was running.
C38_SecondCallCase ==
  /\ lastOp[1] = "animate_exit"
  /\ Len(active) = 2
  /\ active[1].call = 1
  /\ active[2].call = 2

\* ------------------------------------------- autoresizing below the children

\* The assignment of this step changed the size of c, a subview of the view
\* written.
ChildResized(c) ==
  /\ lastOp'[1] = "write"
  /\ Contains(subviews[lastOp'[2]], c)
  /\ (frame'[c].w # frame[c].w \/ frame'[c].h # frame[c].h)

\* The setter of this step called method on view c.
CalledOn(method, c) ==
  \E i \in 1..Len(setter_calls') :
    setter_calls'[i].method = method /\ setter_calls'[i].view = c

\* C39: autoresizing goes down the whole subtree: when the resize of a parent
\* changes the size of a flexible child, the child's own flexible subviews
\* are autoresized by the child's size delta, the child's layout hook is
\* called and the child is marked dirty.
C39_AutoresizingReachesSubtree ==
  [][\A c \in Views :
       ChildResized(c) =>
         /\ \A g \in Views :
              Contains(subviews[c], g) =>
                frame'[g] = SharedFrame(frame[g], flex[g],
                                        FSub(frame'[c].w, frame[c].w),
                                        FSub(frame'[c].h, frame[c].h))
         /\ CalledOn("layout", c)
         /\ CalledOn("set_needs_display", c)]_vars

\* What the resize of a parent does below a child it resized: nothing.
C39_HoldsThatChildIsOnlyRewritten ==
  [][\A c \in Views :
       ChildResized(c) =>
         /\ \A g \in Views : Contains(subviews[c], g) => frame'[g] = frame[g]
         /\ ~CalledOn("layout", c)
         /\ ~CalledOn("set_needs_display", c)
         /\ ~CalledOn("_apply_autoresizing", c)]_vars

\* The root was resized, its child took the change in its width and the
\* child has a flexible subview of its own.
C39_GrandchildCase ==
  /\ lastOp[1] = "write"
  /\ lastOp[2] = 1
  /\ "W" \in flex[2]
  /\ "W" \in flex[3]
  /\ frame[2].w # CtorFrame("View").w
  /\ frame[1].w # CtorFrame("View").w
  /\ writes = 1

\* ------------------------------------------------- an animate body raises

\* What the animation actions leave alone when a body raises.
otherThanRaise ==
  <<treeVars, flagVars, touchVars, focusVars, flex, drawVars, backendVars,
    delayVars, modalVars, pumpVars, colorVars, switchVars, threadVars, hookVars>>

\* animate, when its body raises: the finally clause switches recording off
\* and the exception leaves animate before "records = ctx.records;
\* ctx.records = []", so ctx.records keeps what the body wrote and nothing
\* is scheduled or applied. The caller, which may be an outer animate body
\* that catches the exception, goes on.
animate_raise ==
  /\ callStack # <<>>
  /\ recording' = FALSE
  /\ callStack' = SubSeq(callStack, 1, Len(callStack) - 1)
  /\ raised' = "Exception"
  /\ tickLog' = <<>>
  /\ lastOp' = <<"animate_raise", callStack[Len(callStack)].call,
                 callStack[Len(callStack)].duration>>
  /\ UNCHANGED <<alpha, background_color, transform, setter_calls, frame,
                 bounds, needs_display, clock, records, active, remaining,
                 fired, batch, nextCall, writes, otherThanRaise>>

AnimateRaiseStep == animate_raise

NextRaise ==
  \/ AnimateEnterStep
  \/ AssignStep
  \/ AnimateExitStep
  \/ AnimateRaiseStep
  \/ TickStep

SpecRaise == InitAnim /\ [][NextRaise]_vars

\* The call that ends with an exception in this step switches recording
\* off and schedules, completes and applies nothing.
RaiseLeavesNothing ==
  lastOp'[1] = "animate_raise" =>
    /\ raised' = "Exception"
    /\ ~recording'
    /\ active' = active
    /\ fired' = fired
    /\ Snapshot(Here)' = Snapshot(Here)

\* C40: if the body of an animate call raises, the exception reaches the
\* caller, recording is switched off, no task is added to the active list,
\* the completion is not invoked, and the writes the body made before the
\* exception are neither applied nor taken over by another animate call:
\* a call that returns schedules or applies the writes of its own body only.
C40_RaisingBodyLeavesNothing ==
  [][RaiseLeavesNothing
     /\ ((lastOp'[1] = "animate_exit" /\ callStack # <<>>) =>
           batch'[lastOp'[2]].n <= Len(callStack[Len(callStack)].written))]_vars

\* The same for the calls that are not made from inside an animate body and
\* whose body makes no animate call.
C40_HoldsOfPlainCalls ==
  [][RaiseLeavesNothing
     /\ ((/\ lastOp'[1] = "animate_exit"
          /\ Len(callStack) = 1
          /\ callStack[1].inner = 0) =>
           batch'[lastOp'[2]].n = Len(callStack[1].written))]_vars

\* A call returned after a call whose body had written and raised.
C40_CallAfterRaiseCase ==
  /\ lastOp[1] = "animate_exit"
  /\ callStack = <<>>
  /\ raised = "Exception"
  /\ nextCall = 3
  /\ ~batch[1].returned
  /\ batch[2].returned
  /\ batch[2].n = 1
  /\ writes = 2

====
